---------------------------- MODULE Spec2Model ----------------------------
(***************************************************************************)
(* A model of the raydium-quoter library: the constant-product quote       *)
(* calculator (quoteCalculator) with its batch quoting, the account        *)
(* fetchers with their fixed-offset byte decoders and curve economics      *)
(* (pumpfunBondingCurveFetcher, bondingCurveFetcher), and the pool fetcher *)
(* with its cache (poolFetcher).                                           *)
(*                                                                         *)
(* Representation.  The BN values of the quote calculator are non-negative *)
(* integers (BN.div truncates, which on non-negative operands is \div);   *)
(* those of the account decoders are digit sequences, for a u64 field does *)
(* not fit the checker's integers.  A human-readable amount is a           *)
(* decimal <<m, e>> standing for m * 10^-e; a slippage tolerance is a      *)
(* fraction <<n, d>> standing for n / d.  The Decimal-valued fields of a   *)
(* QuoteResult (currentPrice, executionPrice, priceImpact) are modelled by *)
(* the one thing that decides whether a result exists: decimal.js-light    *)
(* throws on a division of a non-zero value by zero, and returns zero for  *)
(* zero divided by anything.                                               *)
(***************************************************************************)
EXTENDS Integers, Sequences, FiniteSets, TLC

VARIABLES
    poolData,   \* the PoolData snapshot handed to the quote calculator
    call,       \* the quote operation in progress or finished, with its parameters
    outcome     \* what the call produced: a status, the QuoteResult (a set of
                \* zero or one record) and the values of the function's locals

quoteVars == <<poolData, call, outcome>>

VARIABLES
    fetch,        \* the account fetch in progress: its function and position
    accountInfo,  \* what connection.getAccountInfo resolved with: {} for null,
                  \* else the set of the one AccountInfo
    fetched,      \* what the account fetch produced: a status, the decoded
                  \* record (a set of zero or one) and the buffers handed to
                  \* the byte decoder
    launchpadPool,  \* the local pool of fetchBondingCurveInfo: empty until
                    \* fetchLaunchpadPoolAccount has returned
    curveInfo,    \* what an Info function produced: a status, the Info record
                  \* (a set of zero or one) and the Decimals it computed
    requested     \* the addresses the fetch has asked getAccountInfo for, in
                  \* the order of the calls

fetchVars ==
    <<fetch, accountInfo, fetched, launchpadPool, curveInfo, requested>>

VARIABLES
    batch,      \* the calculateMultipleQuotes call in progress or finished: its
                \* parameters and the pool snapshot it was handed
    quotes      \* what that call produced: a status and the QuoteResults

batchVars == <<batch, quotes>>

VARIABLES
    clock,            \* Date.now(), in milliseconds
    poolCache,        \* the module's Map: for each pool id, the set of zero
                      \* or one PoolCacheEntry
    raydiumInstance,  \* the module's Raydium singleton: empty for null, else
                      \* the set of the one connection it was loaded for
    callers,          \* each caller of fetchPoolData: its position and the
                      \* locals of its call in progress
    cacheCall         \* the call of the pool fetcher that has just returned:
                      \* its arguments and what it returned

cacheVars == <<clock, poolCache, raydiumInstance, callers, cacheCall>>

\* The variables the pool fetcher leaves alone.
otherVars == <<poolData, call, outcome, fetchVars, batchVars>>

vars ==
    <<poolData, call, outcome, fetch, accountInfo, fetched, launchpadPool,
      curveInfo, requested, batch, quotes, clock, poolCache, raydiumInstance, callers,
      cacheCall>>

-----------------------------------------------------------------------------
(* Bounds of the model *)

MaxReserve == 5

MaxAmount == 8

MaxScale == 1

MaxDecimals == 1

MaxProduct == 2000000000

MaxSample == 2

MaxBatch == 2

MaxBatchAmount == 2

MaxClock == 2

-----------------------------------------------------------------------------
(* quoteCalculator *)

FEE_RATE_DENOMINATOR == 1000000

RECURSIVE Pow10(_)
Pow10(n) == IF n = 0 THEN 1 ELSE 10 * Pow10(n - 1)

SwapDirections == {"solToToken", "tokenToSol"}

FeeRates == {0, 25000, 300000, 980000, 999999}

Slippages == {<<0, 1>>, <<3, 2000000>>, <<1, 200>>, <<1, 3>>, <<1, 1>>, <<3, 2>>}

Amounts == {<<m, e>> : m \in 0..MaxAmount, e \in 0..MaxScale}

PoolDatas ==
    [baseReserve : 0..MaxReserve,
     quoteReserve : 0..MaxReserve,
     mintADecimals : 0..MaxDecimals,
     mintBDecimals : 0..MaxDecimals,
     tradeFeeRate : FeeRates]

\* decimal.mul(10^decimals).toDecimalPlaces(0, ROUND_DOWN)
toRawAmount(amount, decimals) ==
    (amount[1] * Pow10(decimals)) \div Pow10(amount[2])

\* Mutant of slippageToBN: the parts-per-million are rounded up.
slippageToBN_ceil(slippage) ==
    (slippage[1] * 1000000 + (slippage[2] - 1)) \div slippage[2]

\* new BN(Math.floor(slippage * 1_000_000))
slippageToBN(slippage) ==
    (slippage[1] * 1000000) \div slippage[2]

\* Mutant of calculateFee: the fee is rounded up.
calculateFee_ceil(amount, feeRate) ==
    (amount * feeRate + (FEE_RATE_DENOMINATOR - 1)) \div FEE_RATE_DENOMINATOR

calculateFee(amount, feeRate) ==
    (amount * feeRate) \div FEE_RATE_DENOMINATOR

\* Mutant of ceilDiv: the division truncates.
ceilDiv_floor(a, b) ==
    a \div b

\* Mutant of ceilDiv: b is added instead of b - 1.
ceilDiv_plus1(a, b) ==
    (a + b) \div b

ceilDiv(a, b) ==
    (a + (b - 1)) \div b

\* Mutant of calculateSwapOutput: the division rounds up.
calculateSwapOutput_ceil(inputAmount, inputReserve, outputReserve) ==
    LET numerator == inputAmount * outputReserve
        denominator == inputReserve + inputAmount
    IN  (numerator + (denominator - 1)) \div denominator

calculateSwapOutput(inputAmount, inputReserve, outputReserve) ==
    LET numerator == inputAmount * outputReserve
        denominator == inputReserve + inputAmount
    IN  numerator \div denominator

\* Mutant of calculateSwapInput: the division truncates.
calculateSwapInput_floor(outputAmount, inputReserve, outputReserve) ==
    LET numerator == inputReserve * outputAmount
        denominator == outputReserve - outputAmount
    IN  numerator \div denominator

calculateSwapInput(outputAmount, inputReserve, outputReserve) ==
    LET numerator == inputReserve * outputAmount
        denominator == outputReserve - outputAmount
    IN  ceilDiv(numerator, denominator)

\* Mutant of getReserves: the two directions' reserves are exchanged.
getReserves_swapped(pool, direction) ==
    IF direction = "solToToken"
    THEN [inputReserve |-> pool.baseReserve,
          outputReserve |-> pool.quoteReserve,
          inputDecimals |-> pool.mintBDecimals,
          outputDecimals |-> pool.mintADecimals]
    ELSE [inputReserve |-> pool.quoteReserve,
          outputReserve |-> pool.baseReserve,
          inputDecimals |-> pool.mintADecimals,
          outputDecimals |-> pool.mintBDecimals]

getReserves(pool, direction) ==
    IF direction = "solToToken"
    THEN [inputReserve |-> pool.quoteReserve,
          outputReserve |-> pool.baseReserve,
          inputDecimals |-> pool.mintBDecimals,
          outputDecimals |-> pool.mintADecimals]
    ELSE [inputReserve |-> pool.baseReserve,
          outputReserve |-> pool.quoteReserve,
          inputDecimals |-> pool.mintADecimals,
          outputDecimals |-> pool.mintBDecimals]

\* Decimal.div: x / y throws "Division by zero" when y is zero and x is not.
DecimalDivThrows(x, y) == x # 0 /\ y = 0

\* calculateCurrentPrice, the execution price and calculatePriceImpact: TRUE
\* when one of their Decimal divisions throws.  The spot price is
\* quoteReserve / baseReserve; the execution price is input/output
\* (solToToken) or output/input (tokenToSol); the impact divides the
\* difference of the two by the spot price.
PriceThrows(pool, rawAmountIn, rawAmountOut, direction) ==
    LET execNum == IF direction = "solToToken" THEN rawAmountIn ELSE rawAmountOut
        execDen == IF direction = "solToToken" THEN rawAmountOut ELSE rawAmountIn
    IN  \/ DecimalDivThrows(pool.quoteReserve, pool.baseReserve)
        \/ DecimalDivThrows(execNum, execDen)
        \/ DecimalDivThrows(execNum, pool.quoteReserve)

\* Mutant of exceedsReserve: a request for the whole reserve passes.
exceedsReserve_strict(rawAmountOut, outputReserve) ==
    rawAmountOut > outputReserve

\* rawAmountOut.gte(outputReserve)
exceedsReserve(rawAmountOut, outputReserve) ==
    rawAmountOut >= outputReserve

Failure(status, locals) ==
    [status |-> status, result |-> {}, locals |-> locals]

calculateExactInputQuote(params) ==
    LET r == getReserves(params.poolData, params.direction)
        rawAmountIn == toRawAmount(params.amountIn, r.inputDecimals)
        fee == calculateFee(rawAmountIn, params.poolData.tradeFeeRate)
        amountInAfterFee == rawAmountIn - fee
        rawAmountOut ==
            calculateSwapOutput(amountInAfterFee, r.inputReserve, r.outputReserve)
        slippageBN == slippageToBN(params.slippage)
        slippageAmount == (rawAmountOut * slippageBN) \div FEE_RATE_DENOMINATOR
        minAmountOut == rawAmountOut - slippageAmount
        locals == [inputReserve |-> r.inputReserve,
                   outputReserve |-> r.outputReserve,
                   rawAmount |-> rawAmountIn,
                   swapAmount |-> amountInAfterFee,
                   slippageBN |-> slippageBN]
    IN  IF r.inputReserve + amountInAfterFee = 0
        THEN Failure("DivisionByZero", locals)  \* BN.div asserts a non-zero divisor
        ELSE IF PriceThrows(params.poolData, rawAmountIn, rawAmountOut,
                            params.direction)
        THEN Failure("DivisionByZero", locals)
        ELSE [status |-> "ok",
              result |-> {[amountIn |-> rawAmountIn,
                           amountOut |-> rawAmountOut,
                           minAmountOut |-> minAmountOut,
                           maxAmountIn |-> rawAmountIn,
                           fee |-> fee,
                           direction |-> params.direction]},
              locals |-> locals]

calculateExactOutputQuote(params) ==
    LET r == getReserves(params.poolData, params.direction)
        rawAmountOut == toRawAmount(params.amountOut, r.outputDecimals)
        amountInBeforeFee ==
            calculateSwapInput(rawAmountOut, r.inputReserve, r.outputReserve)
        feeRateDenomMinusFee ==
            FEE_RATE_DENOMINATOR - params.poolData.tradeFeeRate
        rawAmountIn ==
            ceilDiv(amountInBeforeFee * FEE_RATE_DENOMINATOR, feeRateDenomMinusFee)
        fee == rawAmountIn - amountInBeforeFee
        slippageBN == slippageToBN(params.slippage)
        slippageAmount == (rawAmountIn * slippageBN) \div FEE_RATE_DENOMINATOR
        maxAmountIn == rawAmountIn + slippageAmount
        early == [inputReserve |-> r.inputReserve,
                  outputReserve |-> r.outputReserve,
                  rawAmount |-> rawAmountOut,
                  swapAmount |-> 0,
                  slippageBN |-> slippageBN]
        locals == [early EXCEPT !.swapAmount = amountInBeforeFee]
    IN  IF exceedsReserve(rawAmountOut, r.outputReserve)
        THEN Failure("InsufficientReserve", early)
        ELSE IF r.outputReserve - rawAmountOut = 0 \/ feeRateDenomMinusFee = 0
        THEN Failure("DivisionByZero", early)   \* BN.div asserts a non-zero divisor
        ELSE IF PriceThrows(params.poolData, rawAmountIn, rawAmountOut,
                            params.direction)
        THEN Failure("DivisionByZero", locals)
        ELSE [status |-> "ok",
              result |-> {[amountIn |-> rawAmountIn,
                           amountOut |-> rawAmountOut,
                           minAmountOut |-> rawAmountOut,
                           maxAmountIn |-> maxAmountIn,
                           fee |-> fee,
                           direction |-> params.direction]},
              locals |-> locals]

\* The PoolData a trade of rawAmountIn for rawAmountOut would leave: the
\* input reserve grown by the one, the output reserve shrunk by the other.
poolAfterSwap(pool, direction, rawAmountIn, rawAmountOut) ==
    IF direction = "solToToken"
    THEN [pool EXCEPT !.quoteReserve = @ + rawAmountIn,
                      !.baseReserve = @ - rawAmountOut]
    ELSE [pool EXCEPT !.baseReserve = @ + rawAmountIn,
                      !.quoteReserve = @ - rawAmountOut]

\* The quotes executed one after the other, each exact-input quote against
\* the pool the earlier ones left.
RECURSIVE SequentialQuotes(_, _, _, _, _)
SequentialQuotes(pool, amounts, slippage, direction, isExactInput) ==
    IF amounts = <<>>
    THEN [status |-> "ok", results |-> <<>>, poolData |-> pool]
    ELSE LET first ==
                 IF isExactInput
                 THEN calculateExactInputQuote(
                          [poolData |-> pool, amountIn |-> Head(amounts),
                           slippage |-> slippage, direction |-> direction])
                 ELSE calculateExactOutputQuote(
                          [poolData |-> pool, amountOut |-> Head(amounts),
                           slippage |-> slippage, direction |-> direction])
         IN  IF first.status # "ok"
             THEN [status |-> first.status, results |-> <<>>, poolData |-> pool]
             ELSE LET q == CHOOSE r \in first.result : TRUE
                      left == IF isExactInput
                              THEN poolAfterSwap(pool, direction, q.amountIn,
                                                 q.amountOut)
                              ELSE pool
                      rest == SequentialQuotes(left, Tail(amounts), slippage,
                                               direction, isExactInput)
                  IN  IF rest.status # "ok"
                      THEN [rest EXCEPT !.poolData = pool]
                      ELSE [status |-> "ok",
                            results |-> <<q>> \o rest.results,
                            poolData |-> rest.poolData]

\* Mutant of calculateMultipleQuotes: sequential execution.
calculateMultipleQuotes_sequential(pool, amounts, slippage, direction, isExactInput) ==
    SequentialQuotes(pool, amounts, slippage, direction, isExactInput)

\* amounts.map(amount => isExactInput ? calculateExactInputQuote({poolData,
\* amountIn: amount, ...}) : calculateExactOutputQuote({poolData, amountOut:
\* amount, ...})): every quote is handed the same poolData object, and the
\* first quote that throws ends the call.  The calculator reads poolData
\* and builds new numbers (add, sub, mul, div), so the object it leaves is
\* the one it was handed.
calculateMultipleQuotes(pool, amounts, slippage, direction, isExactInput) ==
    LET quote(amount) ==
            IF isExactInput
            THEN calculateExactInputQuote(
                     [poolData |-> pool, amountIn |-> amount,
                      slippage |-> slippage, direction |-> direction])
            ELSE calculateExactOutputQuote(
                     [poolData |-> pool, amountOut |-> amount,
                      slippage |-> slippage, direction |-> direction])
        mapped == [i \in 1..Len(amounts) |-> quote(amounts[i])]
        thrown == {i \in 1..Len(amounts) : mapped[i].status # "ok"}
    IN  IF thrown = {}
        THEN [status |-> "ok",
              results |-> [i \in 1..Len(amounts) |->
                              CHOOSE r \in mapped[i].result : TRUE],
              poolData |-> pool]
        ELSE [status |-> mapped[CHOOSE i \in thrown :
                                   \A j \in thrown : i <= j].status,
              results |-> <<>>,
              poolData |-> pool]

-----------------------------------------------------------------------------
(* Byte buffers.  A Buffer is a sequence of bytes; offset o of the source is *)
(* element o + 1.                                                           *)

Undefined == 0 - 1    \* JavaScript's undefined, read from beyond a buffer's end

Min(a, b) == IF a <= b THEN a ELSE b

Zeros(n) == [i \in 1..n |-> 0]

\* Buffer.subarray(start, end): the range is clamped to the buffer.
subarray(data, start, end) ==
    SubSeq(data, Min(start, Len(data)) + 1, Min(end, Len(data)))

-----------------------------------------------------------------------------
(* bn.js numbers of the account decoders.  A u64 field exceeds the range of *)
(* the checker's integers, so a BN of the fetchers is a natural number kept *)
(* as its digits in base Base, least significant first and without leading  *)
(* zeros; zero is the empty sequence.  Equal numbers are equal sequences.    *)

Base == 10 * 1000

RECURSIVE Norm(_)
Norm(a) ==
    IF a = <<>> THEN <<>>
    ELSE IF a[Len(a)] = 0 THEN Norm(SubSeq(a, 1, Len(a) - 1)) ELSE a

\* new BN(n) of a small number n.
RECURSIVE BN(_)
BN(n) ==
    IF n = 0 THEN <<>> ELSE <<n % Base>> \o BN(n \div Base)

RECURSIVE AddC(_, _, _)
AddC(a, b, carry) ==
    IF a = <<>> /\ b = <<>>
    THEN BN(carry)
    ELSE LET x == IF a = <<>> THEN 0 ELSE Head(a)
             y == IF b = <<>> THEN 0 ELSE Head(b)
             sum == x + y + carry
         IN  <<sum % Base>>
             \o AddC(IF a = <<>> THEN <<>> ELSE Tail(a),
                     IF b = <<>> THEN <<>> ELSE Tail(b), sum \div Base)

\* a.add(b)
bnAdd(a, b) == AddC(a, b, 0)

RECURSIVE SubB(_, _, _)
SubB(a, b, borrow) ==
    IF a = <<>>
    THEN <<>>
    ELSE LET y == IF b = <<>> THEN 0 ELSE Head(b)
             d == Head(a) - y - borrow
         IN  <<IF d < 0 THEN d + Base ELSE d>>
             \o SubB(Tail(a), IF b = <<>> THEN <<>> ELSE Tail(b),
                     IF d < 0 THEN 1 ELSE 0)

\* a.cmp(b): -1, 0 or 1.
RECURSIVE bnCmp(_, _)
bnCmp(a, b) ==
    IF Len(a) # Len(b) THEN (IF Len(a) < Len(b) THEN 0 - 1 ELSE 1)
    ELSE IF a = <<>> THEN 0
    ELSE IF a[Len(a)] # b[Len(b)]
         THEN (IF a[Len(a)] < b[Len(b)] THEN 0 - 1 ELSE 1)
         ELSE bnCmp(SubSeq(a, 1, Len(a) - 1), SubSeq(b, 1, Len(b) - 1))

\* a.sub(b): a BN is signed, so the difference is a sign and a magnitude.
bnSub(a, b) ==
    IF bnCmp(a, b) >= 0
    THEN [neg |-> FALSE, mag |-> Norm(SubB(a, b, 0))]
    ELSE [neg |-> TRUE, mag |-> Norm(SubB(b, a, 0))]

RECURSIVE MulSmallC(_, _, _)
MulSmallC(a, k, carry) ==
    IF a = <<>>
    THEN BN(carry)
    ELSE LET p == Head(a) * k + carry
         IN  <<p % Base>> \o MulSmallC(Tail(a), k, p \div Base)

\* a.muln(k) for 0 <= k < Base.
MulSmall(a, k) == Norm(MulSmallC(a, k, 0))

\* a.mul(b)
RECURSIVE bnMul(_, _)
bnMul(a, b) ==
    IF a = <<>> \/ b = <<>>
    THEN <<>>
    ELSE LET rest == bnMul(a, Tail(b))
         IN  AddC(MulSmall(a, Head(b)),
                  IF rest = <<>> THEN <<>> ELSE <<0>> \o rest, 0)

\* The quotient and remainder of a by k, 0 < k < Base.
RECURSIVE DivSmallC(_, _)
DivSmallC(a, k) ==
    IF a = <<>>
    THEN [q |-> <<>>, r |-> 0]
    ELSE LET hi == DivSmallC(Tail(a), k)
             cur == hi.r * Base + Head(a)
         IN  [q |-> <<cur \div k>> \o hi.q, r |-> cur % k]

DivSmall(a, k) ==
    LET d == DivSmallC(a, k) IN [q |-> Norm(d.q), r |-> d.r]

\* 10^9, the lamports of one SOL.
Giga == BN(1000000000)

\* 2^32
TwoTo32 == bnMul(BN(65536), BN(65536))

\* 2^64, the first value a u64 field cannot hold.
TwoTo64 == bnMul(TwoTo32, TwoTo32)

\* new BN(bytes, "le"): the little-endian value; zero for no bytes.
RECURSIVE BN_le(_)
BN_le(bytes) ==
    IF bytes = <<>>
    THEN <<>>
    ELSE AddC(MulSmall(BN_le(Tail(bytes)), 256), BN(Head(bytes)), 0)

\* BN.toBuffer("le", n): the n little-endian bytes of v, v < 256^n.
RECURSIVE toBuffer_le(_, _)
toBuffer_le(v, n) ==
    IF n = 0
    THEN <<>>
    ELSE LET d == DivSmall(v, 256)
         IN  <<d.r>> \o toBuffer_le(d.q, n - 1)

-----------------------------------------------------------------------------
(* decimal.js-light numbers.  A Decimal is kept as an exact fraction: a sign, *)
(* a numerator and a non-zero denominator, not reduced; the rounding of a   *)
(* quotient to the library's 20 significant digits is left out.  An         *)
(* operation that throws yields a value that carries the error, and every   *)
(* later operation on it passes the error on, first operand first.          *)

Dec(neg, num, den) ==
    [err |-> "none", neg |-> neg /\ num # <<>>, num |-> num, den |-> den]

DecThrown(err) ==
    [err |-> err, neg |-> FALSE, num |-> <<>>, den |-> BN(1)]

\* new Decimal(n) of a small number n >= 0.
DecimalOf(n) == Dec(FALSE, BN(n), BN(1))

\* new Decimal(bn.toString()) of a BN that is not negative.
DecimalOfBN(a) == Dec(FALSE, a, BN(1))

\* new Decimal(bn.toString()) of a difference of BNs.
DecimalOfSigned(d) == Dec(d.neg, d.mag, BN(1))

isZero(x) == x.num = <<>>

\* x.div(y): zero when x is zero, "Division by zero" when only y is.
div(x, y) ==
    IF x.err # "none" THEN x
    ELSE IF y.err # "none" THEN y
    ELSE IF isZero(x) THEN DecimalOf(0)
    ELSE IF isZero(y) THEN DecThrown("DivisionByZero")
    ELSE Dec(x.neg # y.neg, bnMul(x.num, y.den), bnMul(x.den, y.num))

\* x.mul(y)
mul(x, y) ==
    IF x.err # "none" THEN x
    ELSE IF y.err # "none" THEN y
    ELSE Dec(x.neg # y.neg, bnMul(x.num, y.num), bnMul(x.den, y.den))

\* x.sub(y)
sub(x, y) ==
    IF x.err # "none" THEN x
    ELSE IF y.err # "none" THEN y
    ELSE LET p == bnMul(x.num, y.den)
             q == bnMul(y.num, x.den)
             den == bnMul(x.den, y.den)
         IN  IF x.neg = y.neg
             THEN LET d == bnSub(p, q) IN Dec(x.neg # d.neg, d.mag, den)
             ELSE Dec(x.neg, bnAdd(p, q), den)

RECURSIVE Pow10BN(_)
Pow10BN(n) ==
    IF n = 0 THEN BN(1) ELSE MulSmall(Pow10BN(n - 1), 10)

\* source.copy(target, offset), within the target's length.
copy(source, target, offset) ==
    LET n == Min(Len(source), Len(target) - offset)
    IN  IF n <= 0
        THEN target
        ELSE SubSeq(target, 1, offset) \o SubSeq(source, 1, n)
             \o SubSeq(target, offset + n + 1, Len(target))

readU8(data, offset) ==
    IF offset < Len(data) THEN data[offset + 1] ELSE Undefined

\* Mutant of readU64: only the low four bytes are read.
readU64_low32(data, offset) ==
    BN_le(subarray(data, offset, offset + 4))

readU64(data, offset) ==
    BN_le(subarray(data, offset, offset + 8))

\* data[offset] !== 0: undefined, beyond the end, is not 0.
readBool(data, offset) ==
    readU8(data, offset) # 0

\* new PublicKey(bytes): the bytes as a big-endian number of 32 bytes, so
\* fewer than 32 bytes are padded with zeros on the left.
readPublicKey(data, offset) ==
    LET bytes == subarray(data, offset, offset + 32)
    IN  Zeros(32 - Len(bytes)) \o bytes

\* new Decimal(10).pow(n): an undefined exponent is an invalid argument.
pow10(n) ==
    IF n = Undefined
    THEN DecThrown("InvalidArgument")
    ELSE Dec(FALSE, Pow10BN(n), BN(1))

\* Math.pow(10, a - b) as the Decimal an operation makes of it: NaN, from an
\* undefined a or b, is an invalid argument.
decimalAdj(a, b) ==
    IF a = Undefined \/ b = Undefined
    THEN DecThrown("InvalidArgument")
    ELSE IF a >= b
         THEN Dec(FALSE, Pow10BN(a - b), BN(1))
         ELSE Dec(FALSE, BN(1), Pow10BN(b - a))

\* The Decimals a function computed, in program order, up to and including
\* the first one that threw.
RECURSIVE UpToThrow(_)
UpToThrow(decimals) ==
    IF decimals = <<>> THEN <<>>
    ELSE IF Head(decimals).err # "none" THEN <<Head(decimals)>>
    ELSE <<Head(decimals)>> \o UpToThrow(Tail(decimals))

\* The status of a computation: the error of the Decimal that threw.
StatusOf(decimals) ==
    LET computed == UpToThrow(decimals)
        last == computed[Len(computed)]
    IN  IF last.err = "none" THEN "ok" ELSE last.err

\* An Info function that failed before it computed anything.
InfoFailure(status) ==
    [status |-> status, result |-> {}, computed |-> <<>>]

-----------------------------------------------------------------------------
(* pumpfunBondingCurveFetcher *)

PUMPFUN_PROGRAM == "6EF8rrecthR5Dkzon8Nwu78hRvfCKubJ14M5uBEwF6P"

BONDING_CURVE_OFFSETS ==
    [virtualTokenReserves |-> 8,
     virtualSolReserves |-> 16,
     realTokenReserves |-> 24,
     realSolReserves |-> 32,
     tokenTotalSupply |-> 40,
     complete |-> 48]

deserializePumpFunBondingCurve(data) ==
    [virtualTokenReserves |-> readU64(data, BONDING_CURVE_OFFSETS.virtualTokenReserves),
     virtualSolReserves |-> readU64(data, BONDING_CURVE_OFFSETS.virtualSolReserves),
     realTokenReserves |-> readU64(data, BONDING_CURVE_OFFSETS.realTokenReserves),
     realSolReserves |-> readU64(data, BONDING_CURVE_OFFSETS.realSolReserves),
     tokenTotalSupply |-> readU64(data, BONDING_CURVE_OFFSETS.tokenTotalSupply),
     complete |-> readBool(data, BONDING_CURVE_OFFSETS.complete)]

FetchFailure(status) ==
    [status |-> status, result |-> {}, decoded |-> {}]

\* Mutant of fetchPumpFunBondingCurveAccount: the owner is not compared.
fetchPumpFunBondingCurveAccount_anyOwner(info) ==
    IF info = {}
    THEN FetchFailure("AccountNotFound")
    ELSE LET account == CHOOSE a \in info : TRUE
         IN  [status |-> "ok",
              result |-> {deserializePumpFunBondingCurve(account.data)},
              decoded |-> {account.data}]

\* fetchPumpFunBondingCurveAccount from the point where getAccountInfo has
\* resolved with info.
fetchPumpFunBondingCurveAccount(info) ==
    IF info = {}
    THEN FetchFailure("AccountNotFound")
    ELSE LET account == CHOOSE a \in info : TRUE
         IN  IF account.owner # PUMPFUN_PROGRAM
             THEN FetchFailure("OwnershipMismatch")
             ELSE [status |-> "ok",
                   result |-> {deserializePumpFunBondingCurve(account.data)},
                   decoded |-> {account.data}]

PUMPFUN_GRADUATION_TARGET == bnMul(BN(85), Giga)    \* new BN("85000000000")

TOKEN_DECIMALS == 6

SOL_DECIMALS == 9

\* calculateCurrentPrice of pumpfunBondingCurveFetcher
PumpFun_calculateCurrentPrice(curve) ==
    LET effectiveSol ==
            DecimalOfBN(bnAdd(curve.virtualSolReserves, curve.realSolReserves))
        effectiveToken ==
            DecimalOfSigned(bnSub(curve.virtualTokenReserves,
                                  curve.realTokenReserves))
    IN  IF isZero(effectiveToken)
        THEN DecimalOf(0)
        ELSE mul(div(effectiveSol, effectiveToken),
                 decimalAdj(TOKEN_DECIMALS, SOL_DECIMALS))

\* Mutant of calculateGraduationPrice: the terminal quote reserve is taken
\* to be the present one.
PumpFun_calculateGraduationPrice_present(curve) ==
    LET graduationSol ==
            DecimalOfBN(bnAdd(curve.virtualSolReserves, curve.realSolReserves))
        currentK ==
            mul(DecimalOfBN(bnAdd(curve.virtualSolReserves, curve.realSolReserves)),
                DecimalOfSigned(bnSub(curve.virtualTokenReserves,
                                      curve.realTokenReserves)))
        graduationTokens == div(currentK, graduationSol)
    IN  IF isZero(graduationTokens)
        THEN DecimalOf(0)
        ELSE mul(div(graduationSol, graduationTokens),
                 decimalAdj(TOKEN_DECIMALS, SOL_DECIMALS))

\* calculateGraduationPrice of pumpfunBondingCurveFetcher
PumpFun_calculateGraduationPrice(curve) ==
    LET graduationSol ==
            DecimalOfBN(bnAdd(curve.virtualSolReserves, PUMPFUN_GRADUATION_TARGET))
        currentK ==
            mul(DecimalOfBN(bnAdd(curve.virtualSolReserves, curve.realSolReserves)),
                DecimalOfSigned(bnSub(curve.virtualTokenReserves,
                                      curve.realTokenReserves)))
        graduationTokens == div(currentK, graduationSol)
    IN  IF isZero(graduationTokens)
        THEN DecimalOf(0)
        ELSE mul(div(graduationSol, graduationTokens),
                 decimalAdj(TOKEN_DECIMALS, SOL_DECIMALS))

\* The bondingPercentage of fetchPumpFunBondingCurveInfo.
PumpFun_bondingPercentage(curve) ==
    mul(div(DecimalOfBN(curve.realSolReserves),
            DecimalOfBN(PUMPFUN_GRADUATION_TARGET)),
        DecimalOf(100))

\* fetchPumpFunBondingCurveInfo from the point where its call of
\* fetchPumpFunBondingCurveAccount has ended with the outcome account.
fetchPumpFunBondingCurveInfo(account) ==
    IF account.status # "ok"
    THEN InfoFailure(account.status)
    ELSE LET curve == CHOOSE c \in account.result : TRUE
             bondingPercentage == PumpFun_bondingPercentage(curve)
             currentPrice == PumpFun_calculateCurrentPrice(curve)
             graduationPrice == PumpFun_calculateGraduationPrice(curve)
             totalSupplyHuman ==
                 div(DecimalOfBN(curve.tokenTotalSupply), pow10(TOKEN_DECIMALS))
             graduationMcap == mul(graduationPrice, totalSupplyHuman)
             totalFundRaisingSOL ==
                 div(DecimalOfBN(PUMPFUN_GRADUATION_TARGET), pow10(SOL_DECIMALS))
             raisedSoFar ==
                 div(DecimalOfBN(curve.realSolReserves), pow10(SOL_DECIMALS))
             remainingToRaise == sub(totalFundRaisingSOL, raisedSoFar)
             virtualTokenReserves ==
                 div(DecimalOfBN(curve.virtualTokenReserves), pow10(TOKEN_DECIMALS))
             virtualSolReserves ==
                 div(DecimalOfBN(curve.virtualSolReserves), pow10(SOL_DECIMALS))
             realTokenReserves ==
                 div(DecimalOfBN(curve.realTokenReserves), pow10(TOKEN_DECIMALS))
             realSolReserves ==
                 div(DecimalOfBN(curve.realSolReserves), pow10(SOL_DECIMALS))
             decimals ==
                 <<bondingPercentage, currentPrice, graduationPrice,
                   totalSupplyHuman, graduationMcap, totalFundRaisingSOL,
                   raisedSoFar, remainingToRaise, virtualTokenReserves,
                   virtualSolReserves, realTokenReserves, realSolReserves>>
         IN  [status |-> StatusOf(decimals),
              result |->
                  IF StatusOf(decimals) # "ok"
                  THEN {}
                  ELSE {[bondingPercentage |-> bondingPercentage,
                         currentPrice |-> currentPrice,
                         graduationPrice |-> graduationPrice,
                         graduationMcap |-> graduationMcap,
                         totalFundRaisingSOL |-> totalFundRaisingSOL,
                         raisedSoFar |-> raisedSoFar,
                         remainingToRaise |-> remainingToRaise,
                         complete |-> curve.complete,
                         virtualTokenReserves |-> virtualTokenReserves,
                         virtualSolReserves |-> virtualSolReserves,
                         realTokenReserves |-> realTokenReserves,
                         realSolReserves |-> realSolReserves]},
              computed |-> UpToThrow(decimals)]

-----------------------------------------------------------------------------
(* bondingCurveFetcher *)

LAUNCHPAD_PROGRAM == "LanMV9sAd7wArD4vJFi2qDdfnVhFxYSUg6eADduJ3uj"

POOL_OFFSETS ==
    [bump |-> 16, status |-> 17, mintDecimalsA |-> 18, mintDecimalsB |-> 19,
     migrateType |-> 20, supply |-> 21, totalSellA |-> 29, virtualA |-> 37,
     virtualB |-> 45, realA |-> 53, realB |-> 61, totalFundRaisingB |-> 69,
     protocolFee |-> 77, platformFee |-> 85, migrateFee |-> 93,
     totalLockedAmount |-> 101, cliffPeriod |-> 109, unlockPeriod |-> 117,
     startTime |-> 125, totalAllocatedShare |-> 133,
     configId |-> 141, platformId |-> 173, mintA |-> 205, mintB |-> 237,
     vaultA |-> 269, vaultB |-> 301, creator |-> 333]

CONFIG_OFFSETS ==
    [curveType |-> 16, index |-> 17, migrateFee |-> 19, tradeFeeRate |-> 27]

deserializeLaunchpadPool(data) ==
    [status |-> readU8(data, POOL_OFFSETS.status),
     mintDecimalsA |-> readU8(data, POOL_OFFSETS.mintDecimalsA),
     mintDecimalsB |-> readU8(data, POOL_OFFSETS.mintDecimalsB),
     migrateType |-> readU8(data, POOL_OFFSETS.migrateType),
     supply |-> readU64(data, POOL_OFFSETS.supply),
     totalSellA |-> readU64(data, POOL_OFFSETS.totalSellA),
     virtualA |-> readU64(data, POOL_OFFSETS.virtualA),
     virtualB |-> readU64(data, POOL_OFFSETS.virtualB),
     realA |-> readU64(data, POOL_OFFSETS.realA),
     realB |-> readU64(data, POOL_OFFSETS.realB),
     totalFundRaisingB |-> readU64(data, POOL_OFFSETS.totalFundRaisingB),
     migrateFee |-> readU64(data, POOL_OFFSETS.migrateFee),
     totalLockedAmount |-> readU64(data, POOL_OFFSETS.totalLockedAmount),
     configId |-> readPublicKey(data, POOL_OFFSETS.configId),
     platformId |-> readPublicKey(data, POOL_OFFSETS.platformId),
     mintA |-> readPublicKey(data, POOL_OFFSETS.mintA),
     mintB |-> readPublicKey(data, POOL_OFFSETS.mintB),
     creator |-> readPublicKey(data, POOL_OFFSETS.creator)]

\* enum CurveType
CurveType == [ConstantProduct |-> 0, FixedPrice |-> 1, LinearPrice |-> 2]

\* Mutant of deserializeCurveType: an unknown byte falls back to
\* ConstantProduct.
deserializeCurveType_default(data) ==
    LET raw == readU8(data, CONFIG_OFFSETS.curveType)
    IN  IF raw # 0 /\ raw # 1 /\ raw # 2 THEN {CurveType.ConstantProduct} ELSE {raw}

\* deserializeCurveType: the set of the curve type, empty when the byte is
\* none of 0, 1, 2 (the function throws "Unknown curve type").
deserializeCurveType(data) ==
    LET raw == readU8(data, CONFIG_OFFSETS.curveType)
    IN  IF raw # 0 /\ raw # 1 /\ raw # 2 THEN {} ELSE {raw}

\* fetchLaunchpadPoolAccount from the point where getAccountInfo has resolved
\* with info.
fetchLaunchpadPoolAccount(info) ==
    IF info = {}
    THEN FetchFailure("AccountNotFound")
    ELSE LET account == CHOOSE a \in info : TRUE
         IN  IF account.owner # LAUNCHPAD_PROGRAM
             THEN FetchFailure("OwnershipMismatch")
             ELSE [status |-> "ok",
                   result |-> {deserializeLaunchpadPool(account.data)},
                   decoded |-> {account.data}]

\* fetchLaunchpadCurveType from the point where getAccountInfo has resolved
\* with info.
fetchLaunchpadCurveType(info) ==
    IF info = {}
    THEN FetchFailure("AccountNotFound")
    ELSE LET account == CHOOSE a \in info : TRUE
             curveType == deserializeCurveType(account.data)
         IN  [status |-> IF curveType = {} THEN "UnknownCurveVariant" ELSE "ok",
              result |-> curveType,
              decoded |-> {account.data}]

CURVE_TYPE_LABELS ==
    [c \in {0, 1, 2} |->
        CASE c = CurveType.ConstantProduct -> "Constant Product"
          [] c = CurveType.FixedPrice -> "Fixed Price"
          [] OTHER -> "Linear Price"]

\* calculateCurrentPrice of bondingCurveFetcher
Launchpad_calculateCurrentPrice(pool, curveType) ==
    LET adj == decimalAdj(pool.mintDecimalsA, pool.mintDecimalsB)
    IN  IF curveType = CurveType.ConstantProduct
        THEN LET effectiveB == DecimalOfBN(bnAdd(pool.virtualB, pool.realB))
                 effectiveA == DecimalOfSigned(bnSub(pool.virtualA, pool.realA))
             IN  mul(div(effectiveB, effectiveA), adj)
        ELSE LET vB == DecimalOfBN(bnAdd(pool.virtualB, pool.realB))
                 vA == DecimalOfSigned(bnSub(pool.virtualA, pool.realA))
             IN  mul(div(vB, vA), adj)

\* Mutant of calculateGraduationPrice: FixedPrice is computed at the
\* terminal state like the other variants.
Launchpad_calculateGraduationPrice_terminal(pool, curveType) ==
    LET adj == decimalAdj(pool.mintDecimalsA, pool.mintDecimalsB)
        endB == DecimalOfBN(bnAdd(pool.virtualB, pool.totalFundRaisingB))
        endA == DecimalOfSigned(bnSub(pool.virtualA, pool.totalSellA))
    IN  mul(div(endB, endA), adj)

\* calculateGraduationPrice of bondingCurveFetcher
Launchpad_calculateGraduationPrice(pool, curveType) ==
    LET adj == decimalAdj(pool.mintDecimalsA, pool.mintDecimalsB)
    IN  CASE curveType = CurveType.ConstantProduct ->
                 LET endB == DecimalOfBN(bnAdd(pool.virtualB, pool.totalFundRaisingB))
                     endA == DecimalOfSigned(bnSub(pool.virtualA, pool.totalSellA))
                 IN  mul(div(endB, endA), adj)
          [] curveType = CurveType.FixedPrice ->
                 LET vB == DecimalOfBN(pool.virtualB)
                     vA == DecimalOfBN(pool.virtualA)
                 IN  mul(div(vB, vA), adj)
          [] OTHER ->
                 LET endB == DecimalOfBN(bnAdd(pool.virtualB, pool.totalFundRaisingB))
                     endA == DecimalOfSigned(bnSub(pool.virtualA, pool.totalSellA))
                 IN  mul(div(endB, endA), adj)

\* Mutant of the bondingPercentage: a zero target is divided by.
Launchpad_bondingPercentage_noZeroCheck(pool) ==
    mul(div(DecimalOfBN(pool.realB), DecimalOfBN(pool.totalFundRaisingB)),
        DecimalOf(100))

\* The bondingPercentage of fetchBondingCurveInfo.
Launchpad_bondingPercentage(pool) ==
    IF pool.totalFundRaisingB = <<>>
    THEN DecimalOf(100)
    ELSE mul(div(DecimalOfBN(pool.realB), DecimalOfBN(pool.totalFundRaisingB)),
             DecimalOf(100))

\* fetchBondingCurveInfo from the point where fetchLaunchpadPoolAccount has
\* returned pool and the call of fetchLaunchpadCurveType has ended with the
\* outcome curve.
fetchBondingCurveInfo(pool, curve) ==
    IF curve.status # "ok"
    THEN InfoFailure(curve.status)
    ELSE LET curveType == CHOOSE c \in curve.result : TRUE
             bondingPercentage == Launchpad_bondingPercentage(pool)
             currentPrice == Launchpad_calculateCurrentPrice(pool, curveType)
             graduationPrice == Launchpad_calculateGraduationPrice(pool, curveType)
             totalSupplyHuman ==
                 div(DecimalOfBN(pool.supply), pow10(pool.mintDecimalsA))
             graduationMcap == mul(graduationPrice, totalSupplyHuman)
             quoteDecimals == pool.mintDecimalsB
             totalFundRaisingHuman ==
                 div(DecimalOfBN(pool.totalFundRaisingB), pow10(quoteDecimals))
             raisedSoFar == div(DecimalOfBN(pool.realB), pow10(quoteDecimals))
             remainingToRaise == sub(totalFundRaisingHuman, raisedSoFar)
             decimals ==
                 <<bondingPercentage, currentPrice, graduationPrice,
                   totalSupplyHuman, graduationMcap, totalFundRaisingHuman,
                   raisedSoFar, remainingToRaise>>
         IN  [status |-> StatusOf(decimals),
              result |->
                  IF StatusOf(decimals) # "ok"
                  THEN {}
                  ELSE {[curveType |-> curveType,
                         curveTypeLabel |-> CURVE_TYPE_LABELS[curveType],
                         bondingPercentage |-> bondingPercentage,
                         currentPrice |-> currentPrice,
                         graduationPrice |-> graduationPrice,
                         graduationMcap |-> graduationMcap,
                         totalFundRaisingB |-> totalFundRaisingHuman,
                         raisedSoFar |-> raisedSoFar,
                         remainingToRaise |-> remainingToRaise,
                         poolStatus |-> pool.status,
                         migrateType |->
                             IF pool.migrateType = 0 THEN "amm" ELSE "cpmm"]},
              computed |-> UpToThrow(decimals)]

-----------------------------------------------------------------------------
(* The accounts the data source may return *)

SYSTEM_PROGRAM == "11111111111111111111111111111111"

Owners == {PUMPFUN_PROGRAM, LAUNCHPAD_PROGRAM, SYSTEM_PROGRAM}

\* The first n bytes of a buffer, or all of it.
Truncated(data, n) == SubSeq(data, 1, Min(n, Len(data)))

\* createMockBondingCurveData of the tests: a 57-byte account.
createMockBondingCurveData(params) ==
    LET b0 == Zeros(57)
        b1 == copy(toBuffer_le(params.virtualTokenReserves, 8), b0, 8)
        b2 == copy(toBuffer_le(params.virtualSolReserves, 8), b1, 16)
        b3 == copy(toBuffer_le(params.realTokenReserves, 8), b2, 24)
        b4 == copy(toBuffer_le(params.realSolReserves, 8), b3, 32)
        b5 == copy(toBuffer_le(params.tokenTotalSupply, 8), b4, 40)
    IN  copy(<<IF params.complete THEN 1 ELSE 0>>, b5, 48)

\* Bonding-curve states around the tests' fixtures (virtual 10^12 tokens and
\* 30 SOL, real 5 * 10^11 tokens and 42.5 SOL): no, half and all of the
\* tokens sold, nothing to more than the graduation target raised.
FixtureSamples ==
    {[virtualTokenReserves |-> bnMul(BN(1000 * k), Giga),
      virtualSolReserves |-> bnMul(BN(30 * v), Giga),
      realTokenReserves |-> bnMul(BN(500 * r), Giga),
      realSolReserves |-> bnMul(BN(425 * q), BN(100000000)),
      tokenTotalSupply |-> bnMul(BN(1000 * k), Giga),
      complete |-> c] :
        k \in 1..MaxSample, v \in 0..1, r \in 0..MaxSample,
        q \in 0..(MaxSample + 1), c \in BOOLEAN}

\* States at the ends of the u64 range: 2^64 - 1, 2^53 + 1, 2^63 - 2^33,
\* 2^32 and 2^64 - 2.
ExtremeSamples ==
    {[virtualTokenReserves |-> bnSub(TwoTo64, BN(1)).mag,
      virtualSolReserves |-> bnAdd(bnMul(TwoTo32, BN(2097152)), BN(1)),
      realTokenReserves |-> bnMul(TwoTo32, BN(2147483647 - 1)),
      realSolReserves |-> TwoTo32,
      tokenTotalSupply |-> bnSub(TwoTo64, BN(2)).mag,
      complete |-> c] : c \in BOOLEAN}

BondingCurveSamples == FixtureSamples \cup ExtremeSamples

\* The values of the flag byte besides the 0 and 1 the tests write.
OtherFlagBytes == {2, 255}

\* data.writeUInt8(flag, 48)
WithFlag(data, flag) == copy(<<flag>>, data, BONDING_CURVE_OFFSETS.complete)

\* The bonding-curve accounts on the wire, each with the values and the flag
\* byte it encodes.
BondingCurveWires ==
    {[params |-> p, flag |-> IF p.complete THEN 1 ELSE 0,
      data |-> createMockBondingCurveData(p)] : p \in BondingCurveSamples}
    \cup
    {[params |-> p, flag |-> f,
      data |-> WithFlag(createMockBondingCurveData(p), f)] :
        p \in BondingCurveSamples, f \in OtherFlagBytes}

BondingCurveLengths == {0, 9, 33, 48, 49, 57}

BondingCurveBuffers ==
    {Truncated(w.data, n) : w \in BondingCurveWires, n \in BondingCurveLengths}

Key(b) == [i \in 1..32 |-> b]

\* The address a fetch function is called with.
AccountAddress == Key(42)

\* A launchpad pool account: the fields the decoder reads, written at
\* POOL_OFFSETS into a zeroed buffer that ends with the creator key.
LaunchpadPoolData(p) ==
    LET b0 == Zeros(POOL_OFFSETS.creator + 32)
        b1 == copy(<<p.status, p.mintDecimalsA, p.mintDecimalsB, p.migrateType>>,
                   b0, POOL_OFFSETS.status)
        b2 == copy(toBuffer_le(p.supply, 8), b1, POOL_OFFSETS.supply)
        b3 == copy(toBuffer_le(p.totalSellA, 8), b2, POOL_OFFSETS.totalSellA)
        b4 == copy(toBuffer_le(p.virtualA, 8), b3, POOL_OFFSETS.virtualA)
        b5 == copy(toBuffer_le(p.virtualB, 8), b4, POOL_OFFSETS.virtualB)
        b6 == copy(toBuffer_le(p.realA, 8), b5, POOL_OFFSETS.realA)
        b7 == copy(toBuffer_le(p.realB, 8), b6, POOL_OFFSETS.realB)
        b8 == copy(toBuffer_le(p.totalFundRaisingB, 8), b7,
                   POOL_OFFSETS.totalFundRaisingB)
        b9 == copy(toBuffer_le(p.migrateFee, 8), b8, POOL_OFFSETS.migrateFee)
        b10 == copy(toBuffer_le(p.totalLockedAmount, 8), b9,
                    POOL_OFFSETS.totalLockedAmount)
        b11 == copy(p.configId, b10, POOL_OFFSETS.configId)
        b12 == copy(p.platformId, b11, POOL_OFFSETS.platformId)
        b13 == copy(p.mintA, b12, POOL_OFFSETS.mintA)
        b14 == copy(p.mintB, b13, POOL_OFFSETS.mintB)
    IN  copy(p.creator, b14, POOL_OFFSETS.creator)

\* Launchpad pools of 10^15 base units: none, half and all of the virtual
\* base sold, nothing to all of an 80 * 10^9 target raised or no target at
\* all, the tokens for sale below or equal to the virtual base.
LaunchpadPoolSamples ==
    {[status |-> d, mintDecimalsA |-> IF d = 0 THEN 6 ELSE 9,
      mintDecimalsB |-> IF d = 0 THEN 9 ELSE 6, migrateType |-> d,
      supply |-> bnMul(BN(1000000), Giga),
      totalSellA |-> bnMul(BN(800000 + 200000 * s), Giga),
      virtualA |-> bnMul(BN(1000000), Giga),
      virtualB |-> bnMul(BN(30 * v), Giga),
      realA |-> bnMul(BN(500000 * a), Giga),
      realB |-> bnMul(BN(40 * b), Giga),
      totalFundRaisingB |-> bnMul(BN(80 * t), Giga),
      migrateFee |-> BN(1), totalLockedAmount |-> BN(0),
      configId |-> Key(1 + d), platformId |-> Key(7), mintA |-> Key(8),
      mintB |-> Key(9), creator |-> Key(10)] :
        d \in 0..1, s \in 0..1, v \in 0..1, t \in 0..1,
        a \in 0..MaxSample, b \in 0..MaxSample}

LaunchpadPoolLengths ==
    {0, 18, 38, 142, POOL_OFFSETS.creator + 31, POOL_OFFSETS.creator + 32}

LaunchpadPoolBuffers ==
    {Truncated(LaunchpadPoolData(p), n) :
        p \in LaunchpadPoolSamples, n \in LaunchpadPoolLengths}

\* A launchpad config account: the curve-type byte and the fee rate, written
\* at CONFIG_OFFSETS into a zeroed buffer that ends with the fee rate.
LaunchpadConfigData(curveType, tradeFeeRate) ==
    LET b0 == Zeros(CONFIG_OFFSETS.tradeFeeRate + 8)
        b1 == copy(<<curveType>>, b0, CONFIG_OFFSETS.curveType)
    IN  copy(toBuffer_le(tradeFeeRate, 8), b1, CONFIG_OFFSETS.tradeFeeRate)

\* Every value the byte at CONFIG_OFFSETS.curveType can hold.
CurveTypeBytes == 0..255

LaunchpadConfigLengths ==
    {0, 16, 17, CONFIG_OFFSETS.tradeFeeRate + 7, CONFIG_OFFSETS.tradeFeeRate + 8}

LaunchpadConfigBuffers ==
    {Truncated(LaunchpadConfigData(c, BN(2500 * k)), n) :
        c \in CurveTypeBytes, k \in 1..MaxSample, n \in LaunchpadConfigLengths}

\* The config accounts at the configId of a pool: each known variant, the
\* first unknown one, and an account without data.
InfoConfigBuffers ==
    {LaunchpadConfigData(c, BN(2500)) : c \in 0..3} \cup {<<>>}

FetchFunctions ==
    {"fetchPumpFunBondingCurveAccount", "fetchLaunchpadPoolAccount",
     "fetchLaunchpadCurveType", "fetchPumpFunBondingCurveInfo",
     "fetchBondingCurveInfo"}

\* The account bytes the data source may hold at the address the fetch f
\* asks: the kind of account the function, at its position, expects.
BuffersFor(f) ==
    CASE f.fn \in {"fetchPumpFunBondingCurveAccount",
                   "fetchPumpFunBondingCurveInfo"} -> BondingCurveBuffers
      [] f.fn = "fetchLaunchpadPoolAccount" -> LaunchpadPoolBuffers
      [] f.fn = "fetchBondingCurveInfo" /\ f.pc = "awaiting" -> LaunchpadPoolBuffers
      [] f.fn = "fetchBondingCurveInfo" -> InfoConfigBuffers
      [] OTHER -> LaunchpadConfigBuffers

\* The largest offset + width of the layout the last account fetch of a
\* function decodes.
LayoutLength(fn) ==
    CASE fn \in {"fetchPumpFunBondingCurveAccount",
                 "fetchPumpFunBondingCurveInfo"} ->
             BONDING_CURVE_OFFSETS.complete + 1
      [] fn = "fetchLaunchpadPoolAccount" -> POOL_OFFSETS.creator + 32
      [] OTHER -> CONFIG_OFFSETS.tradeFeeRate + 8

-----------------------------------------------------------------------------
(* The quote calculator as a state machine: one call on one pool snapshot *)

NoCall == [op |-> "none", amount |-> <<0, 0>>, slippage |-> <<0, 1>>,
           direction |-> "solToToken"]

NoOutcome == [status |-> "none", result |-> {},
              locals |-> [inputReserve |-> 0, outputReserve |-> 0,
                          rawAmount |-> 0, swapAmount |-> 0, slippageBN |-> 0]]

\* The products an exact-output quote forms stay below MaxProduct.
ExactOutputInRange(params) ==
    LET r == getReserves(params.poolData, params.direction)
        rawAmountOut == toRawAmount(params.amountOut, r.outputDecimals)
        before == calculateSwapInput(rawAmountOut, r.inputReserve, r.outputReserve)
        rawAmountIn ==
            ceilDiv(before * FEE_RATE_DENOMINATOR,
                    FEE_RATE_DENOMINATOR - params.poolData.tradeFeeRate)
        slippageBN == slippageToBN(params.slippage)
    IN  IF rawAmountOut >= r.outputReserve \/ slippageBN = 0
           \/ poolData.tradeFeeRate = FEE_RATE_DENOMINATOR
        THEN TRUE
        ELSE rawAmountIn <= MaxProduct \div slippageBN

NoBatch == [op |-> "none", poolData |-> {}, amounts |-> <<>>,
            slippage |-> <<0, 1>>, direction |-> "solToToken",
            isExactInput |-> TRUE]

NoQuotes == [status |-> "none", results |-> <<>>]

BatchIdle ==
    /\ batch = NoBatch
    /\ quotes = NoQuotes

\* The pool fetcher's constant, pool ids, callers and inputs.
DEFAULT_CACHE_TTL == 10000

PoolIds == {"poolA", "poolB"}

Callers == {"c1", "c2"}

Connection == "connection"

TickMs == DEFAULT_CACHE_TTL \div 2

TTLs == {Undefined, TickMs}

\* The pool the callers fetch; the other pool's entries are set by hand.
FetchedPoolIds == {"poolA"}

\* The reserve the RPC answers with, and the one set by hand.
RpcReserves == {1, 2}

SetReserves == {0}

IdleCaller ==
    [pc |-> "idle", poolIdStr |-> "", cacheTTL |-> 0, now |-> 0]

NoCacheCall ==
    [op |-> "none", poolId |-> "", forceRefresh |-> FALSE, ttl |-> Undefined,
     status |-> "none", data |-> {}, previous |-> {}]

CacheIdle ==
    /\ clock = 0
    /\ poolCache = [id \in PoolIds |-> {}]
    /\ raydiumInstance = {}
    /\ callers = [c \in Callers |-> IdleCaller]
    /\ cacheCall = NoCacheCall

NoFetch == [fn |-> "none", pc |-> "idle"]

NotFetched == [status |-> "none", result |-> {}, decoded |-> {}]

NoInfo == [status |-> "none", result |-> {}, computed |-> <<>>]

FetchIdle ==
    /\ fetch = NoFetch
    /\ accountInfo = {}
    /\ fetched = NotFetched
    /\ launchpadPool = {}
    /\ curveInfo = NoInfo
    /\ requested = <<>>

Init ==
    /\ poolData \in PoolDatas
    /\ call = NoCall
    /\ outcome = NoOutcome
    /\ FetchIdle
    /\ BatchIdle
    /\ CacheIdle

ExactInput ==
    /\ call.op = "none"
    /\ \E amountIn \in Amounts, slippage \in Slippages, direction \in SwapDirections :
        /\ call' = [op |-> "exactInput", amount |-> amountIn,
                    slippage |-> slippage, direction |-> direction]
        /\ outcome' = calculateExactInputQuote(
                          [poolData |-> poolData, amountIn |-> amountIn,
                           slippage |-> slippage, direction |-> direction])
    /\ UNCHANGED <<poolData, fetchVars, batchVars, cacheVars>>

ExactOutput ==
    /\ call.op = "none"
    /\ \E amountOut \in Amounts, slippage \in Slippages, direction \in SwapDirections :
        LET params == [poolData |-> poolData, amountOut |-> amountOut,
                       slippage |-> slippage, direction |-> direction]
        IN  /\ ExactOutputInRange(params)
            /\ call' = [op |-> "exactOutput", amount |-> amountOut,
                        slippage |-> slippage, direction |-> direction]
            /\ outcome' = calculateExactOutputQuote(params)
    /\ UNCHANGED <<poolData, fetchVars, batchVars, cacheVars>>

Next ==
    \/ ExactInput
    \/ ExactOutput

Spec == Init /\ [][Next]_vars

-----------------------------------------------------------------------------
(* Batch quoting as a state machine: one calculateMultipleQuotes call on  *)
(* one pool snapshot, the snapshot getBulkQuotes got from getPoolData.    *)

BatchAmounts == {<<m, 0>> : m \in 0..MaxBatchAmount}

RECURSIVE SeqsUpTo(_, _)
SeqsUpTo(S, n) ==
    IF n = 0 THEN {<<>>}
    ELSE LET shorter == SeqsUpTo(S, n - 1)
         IN  shorter \cup {Append(q, x) : q \in shorter, x \in S}

BatchAmountLists == SeqsUpTo(BatchAmounts, MaxBatch)

BatchSlippages == {<<0, 1>>, <<1, 200>>}

BatchInit == Init

MultipleQuotes ==
    /\ batch.op = "none"
    /\ call.op = "none"
    /\ \E amounts \in BatchAmountLists, slippage \in BatchSlippages,
          direction \in SwapDirections, isExactInput \in BOOLEAN :
        LET returned == calculateMultipleQuotes(poolData, amounts, slippage,
                                                direction, isExactInput)
        IN  /\ isExactInput \/
                   \A i \in 1..Len(amounts) :
                       ExactOutputInRange(
                           [poolData |-> poolData, amountOut |-> amounts[i],
                            slippage |-> slippage, direction |-> direction])
            /\ batch' = [op |-> "calculateMultipleQuotes",
                         poolData |-> {poolData}, amounts |-> amounts,
                         slippage |-> slippage, direction |-> direction,
                         isExactInput |-> isExactInput]
            /\ quotes' = [status |-> returned.status,
                          results |-> returned.results]
            /\ poolData' = returned.poolData
    /\ UNCHANGED <<call, outcome, fetchVars, cacheVars>>

BatchNext == MultipleQuotes

BatchSpec == BatchInit /\ [][BatchNext]_vars

-----------------------------------------------------------------------------
(* The account fetchers as a state machine: a fetch calls getAccountInfo, *)
(* suspends, and runs to its end when the data source answers.            *)

FetchInit ==
    /\ poolData = [baseReserve |-> 0, quoteReserve |-> 0, mintADecimals |-> 0,
                   mintBDecimals |-> 0, tradeFeeRate |-> 0]
    /\ call = NoCall
    /\ outcome = NoOutcome
    /\ FetchIdle
    /\ BatchIdle
    /\ CacheIdle

\* A fetch function is called: it asks the connection for the account and
\* awaits the answer.
StartFetch ==
    /\ fetch.pc = "idle"
    /\ \E fn \in FetchFunctions : fetch' = [fn |-> fn, pc |-> "awaiting"]
    /\ requested' = <<AccountAddress>>
    /\ UNCHANGED <<accountInfo, fetched, launchpadPool, curveInfo, quoteVars,
                   batchVars, cacheVars>>

\* Mutant of fetchBondingCurveInfo_afterPool: the config account is asked
\* for at the pool's platformId.
fetchBondingCurveInfo_afterPool_platformId(account, p) ==
    IF account.status # "ok"
    THEN [pc |-> "done", pool |-> p, fetched |-> account,
          info |-> InfoFailure(account.status), asks |-> <<>>]
    ELSE [pc |-> "awaitingConfig", pool |-> account.result,
          fetched |-> account, info |-> NoInfo,
          asks |-> <<(CHOOSE q \in account.result : TRUE).platformId>>]

\* fetchBondingCurveInfo once fetchLaunchpadPoolAccount has ended with
\* account: its rejection is the function's own, and with a pool the
\* function calls fetchLaunchpadCurveType(connection, pool.configId).
fetchBondingCurveInfo_afterPool(account, p) ==
    IF account.status # "ok"
    THEN [pc |-> "done", pool |-> p, fetched |-> account,
          info |-> InfoFailure(account.status), asks |-> <<>>]
    ELSE [pc |-> "awaitingConfig", pool |-> account.result,
          fetched |-> account, info |-> NoInfo,
          asks |-> <<(CHOOSE q \in account.result : TRUE).configId>>]

\* What the fetch f does once getAccountInfo has resolved with accountInfo:
\* the account fetch runs to its end, and the Info function that called it
\* goes on to its own end or to its next await.  p is the local pool.
Continue(f, accountInfo_, p) ==
    CASE f.fn = "fetchPumpFunBondingCurveAccount" ->
             [pc |-> "done", pool |-> p, info |-> NoInfo, asks |-> <<>>,
              fetched |-> fetchPumpFunBondingCurveAccount(accountInfo_)]
      [] f.fn = "fetchLaunchpadPoolAccount" ->
             [pc |-> "done", pool |-> p, info |-> NoInfo, asks |-> <<>>,
              fetched |-> fetchLaunchpadPoolAccount(accountInfo_)]
      [] f.fn = "fetchLaunchpadCurveType" ->
             [pc |-> "done", pool |-> p, info |-> NoInfo, asks |-> <<>>,
              fetched |-> fetchLaunchpadCurveType(accountInfo_)]
      [] f.fn = "fetchPumpFunBondingCurveInfo" ->
             LET account == fetchPumpFunBondingCurveAccount(accountInfo_)
             IN  [pc |-> "done", pool |-> p, fetched |-> account,
                  asks |-> <<>>,
                  info |-> fetchPumpFunBondingCurveInfo(account)]
      [] f.fn = "fetchBondingCurveInfo" /\ f.pc = "awaiting" ->
             fetchBondingCurveInfo_afterPool(
                 fetchLaunchpadPoolAccount(accountInfo_), p)
      [] OTHER ->
             LET curve == fetchLaunchpadCurveType(accountInfo_)
             IN  [pc |-> "done", pool |-> p, fetched |-> curve, asks |-> <<>>,
                  info |-> fetchBondingCurveInfo(CHOOSE q \in p : TRUE, curve)]

Resume(accountInfo_) ==
    \E next \in {Continue(fetch, accountInfo_, launchpadPool)} :
        /\ accountInfo' = accountInfo_
        /\ fetched' = next.fetched
        /\ launchpadPool' = next.pool
        /\ curveInfo' = next.info
        /\ requested' = requested \o next.asks
        /\ fetch' = [fetch EXCEPT !.pc = next.pc]

\* getAccountInfo resolves with null.
ResolveNull ==
    /\ fetch.pc \in {"awaiting", "awaitingConfig"}
    /\ Resume({})
    /\ UNCHANGED <<quoteVars, batchVars, cacheVars>>

\* getAccountInfo resolves with an account.
ResolveAccount ==
    /\ fetch.pc \in {"awaiting", "awaitingConfig"}
    /\ \E owner \in Owners, data \in BuffersFor(fetch) :
        Resume({[owner |-> owner, data |-> data]})
    /\ UNCHANGED <<quoteVars, batchVars, cacheVars>>

FetchNext ==
    \/ StartFetch
    \/ ResolveNull
    \/ ResolveAccount

FetchSpec == FetchInit /\ [][FetchNext]_vars

-----------------------------------------------------------------------------
(* poolFetcher: fetchPoolData and the module's pool cache.  A PoolData is   *)
(* kept by what tells one fetch from another: the pool id, a reserve and    *)
(* fetchedAt.  The Map is a function from pool ids to sets of zero or one   *)
(* PoolCacheEntry.                                                          *)

\* Mutant of poolCache_set: an entry that expires later is kept.
poolCache_set_ifNewer(cache, key, entry) ==
    IF \E c \in cache[key] : c.expiresAt > entry.expiresAt
    THEN cache
    ELSE [cache EXCEPT ![key] = {entry}]

\* poolCache.set(key, entry)
poolCache_set(cache, key, entry) ==
    [cache EXCEPT ![key] = {entry}]

\* poolCache.delete(key)
poolCache_delete(cache, key) ==
    [cache EXCEPT ![key] = {}]

\* poolCache.clear()
poolCache_clear(cache) ==
    [key \in DOMAIN cache |-> {}]

\* options.cacheTTL ?? DEFAULT_CACHE_TTL, and the default of the parameter
\* ttl of setPoolDataCache.
ttlOrDefault(ttl) ==
    IF ttl = Undefined THEN DEFAULT_CACHE_TTL ELSE ttl

\* The cache check of fetchPoolData: the data it returns without a fetch.
fetchPoolData_cached(cache, poolIdStr, options, now) ==
    IF options.forceRefresh
    THEN {}
    ELSE {cached.data :
              cached \in {c \in cache[poolIdStr] : c.expiresAt > now}}

\* The PoolData fetchPoolData builds of the RPC's answer, and the cache it
\* leaves: now is the time the call began.
fetchPoolData_poolData(poolIdStr, baseReserve, now) ==
    [id |-> poolIdStr, baseReserve |-> baseReserve, fetchedAt |-> now]

fetchPoolData_store(cache, poolIdStr, poolData_, cacheTTL, now) ==
    poolCache_set(cache, poolIdStr,
                  [data |-> poolData_, expiresAt |-> now + cacheTTL])

setPoolDataCache(cache, poolData_, ttl, now) ==
    poolCache_set(cache, poolData_.id,
                  [data |-> poolData_, expiresAt |-> now + ttlOrDefault(ttl)])

\* Mutant of getPoolDataFromCache: an entry is still served at expiresAt.
getPoolDataFromCache_inclusive(cache, poolId, now) ==
    {cached.data : cached \in {c \in cache[poolId] : c.expiresAt >= now}}

\* The empty set stands for undefined.
getPoolDataFromCache(cache, poolId, now) ==
    {cached.data : cached \in {c \in cache[poolId] : c.expiresAt > now}}

\* if (poolId): no argument and the empty string alike clear every entry.
clearPoolCache(cache, poolId) ==
    IF poolId # ""
    THEN poolCache_delete(cache, poolId)
    ELSE poolCache_clear(cache)

-----------------------------------------------------------------------------
(* The pool fetcher as a state machine.  Each caller runs fetchPoolData   *)
(* from its call to its return, suspended at its awaits; the synchronous  *)
(* functions of the module and the clock run in between.                  *)

CacheInit == FetchInit

\* Time passes.
Tick ==
    /\ clock < MaxClock * TickMs
    /\ clock' = clock + TickMs
    /\ cacheCall' = NoCacheCall
    /\ UNCHANGED <<poolCache, raydiumInstance, callers, otherVars>>

\* fetchPoolData(connection, poolId, options) up to its return of the cached
\* data or to its first await, that of getRaydiumInstance(connection), which
\* has either returned the instance or called Raydium.load.
FetchPoolData(c) ==
    /\ callers[c].pc = "idle"
    /\ \E poolId \in FetchedPoolIds, forceRefresh \in BOOLEAN,
          cacheTTL \in TTLs :
        LET options == [forceRefresh |-> forceRefresh, cacheTTL |-> cacheTTL]
            now == clock
            cached == fetchPoolData_cached(poolCache, poolId, options, now)
        IN  /\ cacheCall' = [op |-> "fetchPoolData", poolId |-> poolId,
                             forceRefresh |-> forceRefresh, ttl |-> cacheTTL,
                             status |-> IF cached # {} THEN "cached"
                                        ELSE "pending",
                             data |-> cached,
                             previous |-> poolCache[poolId]]
            /\ callers' =
                   IF cached # {}
                   THEN callers
                   ELSE [callers EXCEPT ![c] =
                            [pc |-> IF raydiumInstance = {Connection}
                                    THEN "awaitInstance" ELSE "awaitLoad",
                             poolIdStr |-> poolId,
                             cacheTTL |-> ttlOrDefault(options.cacheTTL),
                             now |-> now]]
    /\ UNCHANGED <<clock, poolCache, raydiumInstance, otherVars>>

\* Raydium.load resolves: getRaydiumInstance stores the instance and returns.
LoadResolved(c) ==
    /\ callers[c].pc = "awaitLoad"
    /\ raydiumInstance' = {Connection}
    /\ callers' = [callers EXCEPT ![c].pc = "awaitInstance"]
    /\ cacheCall' = NoCacheCall
    /\ UNCHANGED <<clock, poolCache, otherVars>>

\* fetchPoolData resumes with the instance and calls getPoolInfoFromRpc.
InstanceReturned(c) ==
    /\ callers[c].pc = "awaitInstance"
    /\ callers' = [callers EXCEPT ![c].pc = "awaitRpc"]
    /\ cacheCall' = NoCacheCall
    /\ UNCHANGED <<clock, poolCache, raydiumInstance, otherVars>>

\* getPoolInfoFromRpc resolves: fetchPoolData builds the PoolData, stores it
\* and returns it.
RpcResolved(c) ==
    /\ callers[c].pc = "awaitRpc"
    /\ \E baseReserve \in RpcReserves :
        LET local == callers[c]
            poolData_ == fetchPoolData_poolData(local.poolIdStr, baseReserve,
                                                local.now)
        IN  /\ poolCache' = fetchPoolData_store(poolCache, local.poolIdStr,
                                                poolData_, local.cacheTTL,
                                                local.now)
            /\ cacheCall' = [op |-> "fetchPoolData",
                             poolId |-> local.poolIdStr,
                             forceRefresh |-> FALSE, ttl |-> local.cacheTTL,
                             status |-> "fetched", data |-> {poolData_},
                             previous |-> poolCache[local.poolIdStr]]
    /\ callers' = [callers EXCEPT ![c] = IdleCaller]
    /\ UNCHANGED <<clock, raydiumInstance, otherVars>>

\* Raydium.load or getPoolInfoFromRpc rejects: fetchPoolData rejects.
Rejected(c) ==
    /\ callers[c].pc \in {"awaitLoad", "awaitRpc"}
    /\ cacheCall' = [op |-> "fetchPoolData",
                     poolId |-> callers[c].poolIdStr,
                     forceRefresh |-> FALSE, ttl |-> callers[c].cacheTTL,
                     status |-> "rejected", data |-> {},
                     previous |-> poolCache[callers[c].poolIdStr]]
    /\ callers' = [callers EXCEPT ![c] = IdleCaller]
    /\ UNCHANGED <<clock, poolCache, raydiumInstance, otherVars>>

SetPoolDataCache ==
    /\ \E poolId \in PoolIds, baseReserve \in SetReserves, ttl \in TTLs :
        LET poolData_ == fetchPoolData_poolData(poolId, baseReserve, clock)
        IN  /\ poolCache' = setPoolDataCache(poolCache, poolData_, ttl, clock)
            /\ cacheCall' = [op |-> "setPoolDataCache", poolId |-> poolId,
                             forceRefresh |-> FALSE, ttl |-> ttl,
                             status |-> "returned", data |-> {poolData_},
                             previous |-> poolCache[poolId]]
    /\ UNCHANGED <<clock, raydiumInstance, callers, otherVars>>

GetPoolDataFromCache ==
    /\ \E poolId \in PoolIds :
        cacheCall' = [op |-> "getPoolDataFromCache", poolId |-> poolId,
                      forceRefresh |-> FALSE, ttl |-> Undefined,
                      status |-> "returned",
                      data |-> getPoolDataFromCache(poolCache, poolId, clock),
                      previous |-> poolCache[poolId]]
    /\ UNCHANGED <<clock, poolCache, raydiumInstance, callers, otherVars>>

ClearPoolCache ==
    /\ \E poolId \in PoolIds \cup {""} :
        /\ poolCache' = clearPoolCache(poolCache, poolId)
        /\ cacheCall' = [op |-> "clearPoolCache", poolId |-> poolId,
                         forceRefresh |-> FALSE, ttl |-> Undefined,
                         status |-> "returned", data |-> {},
                         previous |-> {}]
    /\ UNCHANGED <<clock, raydiumInstance, callers, otherVars>>

CacheNext ==
    \/ Tick
    \/ \E c \in Callers : FetchPoolData(c)
    \/ \E c \in Callers : LoadResolved(c)
    \/ \E c \in Callers : InstanceReturned(c)
    \/ \E c \in Callers : RpcResolved(c)
    \/ \E c \in Callers : Rejected(c)
    \/ SetPoolDataCache
    \/ GetPoolDataFromCache
    \/ ClearPoolCache

CacheSpec == CacheInit /\ [][CacheNext]_vars

-----------------------------------------------------------------------------
(* Properties of the quote calculator *)

\* The reserves of a direction, read off the pool: the input side of
\* solToToken is the quote reserve, its output side the base reserve.
InputReserveOf(direction) ==
    IF direction = "solToToken" THEN poolData.quoteReserve ELSE poolData.baseReserve

OutputReserveOf(direction) ==
    IF direction = "solToToken" THEN poolData.baseReserve ELSE poolData.quoteReserve

InputDecimalsOf(direction) ==
    IF direction = "solToToken" THEN poolData.mintBDecimals ELSE poolData.mintADecimals

OutputDecimalsOf(direction) ==
    IF direction = "solToToken" THEN poolData.mintADecimals ELSE poolData.mintBDecimals

\* q is the quotient num / den rounded down, or rounded up (den > 0).
IsFloor(q, num, den) == q * den <= num /\ num < (q + 1) * den

IsCeil(q, num, den) == (q - 1) * den < num /\ num <= q * den

\* n is the amount <<m, e>> in raw units of a mint with the given decimals,
\* truncated toward zero.
IsRawOf(n, amount, decimals) ==
    IsFloor(n, amount[1] * Pow10(decimals), Pow10(amount[2]))

\* A human-readable amount whose raw value, at the given decimals, is raw.
HumanOf(raw, decimals) ==
    IF raw % Pow10(decimals) = 0
    THEN <<raw \div Pow10(decimals), 0>>
    ELSE <<raw, decimals>>

ExactInputResult == call.op = "exactInput" /\ outcome.status = "ok"

ExactOutputResult == call.op = "exactOutput" /\ outcome.status = "ok"

QuoteBack(amountIn) ==
    calculateExactInputQuote(
        [poolData |-> poolData,
         amountIn |-> HumanOf(amountIn, InputDecimalsOf(call.direction)),
         slippage |-> call.slippage,
         direction |-> call.direction])

\* The product amountIn * tradeFeeRate of the exact-input fee stays below
\* MaxProduct.
FeeProductInRange(amountIn) ==
    IF poolData.tradeFeeRate = 0
    THEN TRUE
    ELSE amountIn <= MaxProduct \div poolData.tradeFeeRate

\* C2: on a pool with positive reserves, when calculateExactOutputQuote for a
\* raw output x > 0 returns amountIn = a, calculateExactInputQuote for the raw
\* input a on the same snapshot and direction returns amountOut >= x.
C2_RoundTrip ==
    (/\ ExactOutputResult
     /\ poolData.baseReserve > 0
     /\ poolData.quoteReserve > 0
     /\ outcome.locals.rawAmount > 0) =>
        \A q \in outcome.result :
            FeeProductInRange(q.amountIn) =>
                /\ QuoteBack(q.amountIn).status = "ok"
                /\ \A back \in QuoteBack(q.amountIn).result :
                    /\ back.amountIn = q.amountIn
                    /\ back.amountOut >= q.amountOut

\* A round trip under a non-zero fee whose exact-input quote returns strictly
\* more than the requested output: the two quotes are not inverses.
C2_Witness ==
    /\ ExactOutputResult
    /\ poolData.baseReserve > 0
    /\ poolData.quoteReserve > 0
    /\ poolData.tradeFeeRate = 980000
    /\ \E q \in outcome.result :
        /\ q.amountOut > 0
        /\ FeeProductInRange(q.amountIn)
        /\ \E back \in QuoteBack(q.amountIn).result : back.amountOut > q.amountOut

\* C3: in every result of calculateExactInputQuote the fee is
\* rawAmountIn * tradeFeeRate / 1_000_000 rounded down, and the amount given
\* to the swap formula is rawAmountIn - fee, which is not negative.
C3_InputFeeIsFloor ==
    ExactInputResult =>
        \A q \in outcome.result :
            /\ IsRawOf(q.amountIn, call.amount, InputDecimalsOf(call.direction))
            /\ IsFloor(q.fee, q.amountIn * poolData.tradeFeeRate, 1000000)
            /\ outcome.locals.swapAmount = q.amountIn - q.fee
            /\ outcome.locals.swapAmount >= 0

\* A result whose fee is positive and was really rounded down.
C3_Witness ==
    /\ ExactInputResult
    /\ \E q \in outcome.result :
        /\ q.fee > 0
        /\ (q.amountIn * poolData.tradeFeeRate) % 1000000 # 0

\* C4: in every result of calculateExactInputQuote, amountOut is
\* amountInAfterFee * outputReserve / (inputReserve + amountInAfterFee)
\* rounded down, the reserves being (quote, base) for solToToken and
\* (base, quote) for tokenToSol.
C4_OutputIsFloor ==
    ExactInputResult =>
        \A q \in outcome.result :
            LET after == q.amountIn - q.fee
            IN  /\ InputReserveOf(call.direction) + after > 0
                /\ IsFloor(q.amountOut,
                           after * OutputReserveOf(call.direction),
                           InputReserveOf(call.direction) + after)

\* A tokenToSol result on a pool with unequal reserves whose output is
\* positive and was really rounded down.
C4_Witness ==
    /\ ExactInputResult
    /\ call.direction = "tokenToSol"
    /\ poolData.baseReserve # poolData.quoteReserve
    /\ \E q \in outcome.result :
        /\ q.amountOut > 0
        /\ ((q.amountIn - q.fee) * poolData.quoteReserve)
             % (poolData.baseReserve + (q.amountIn - q.fee)) # 0

\* C5: in every successful result of calculateExactOutputQuote,
\* amountInBeforeFee is inputReserve * rawAmountOut / (outputReserve -
\* rawAmountOut) rounded up and amountIn is amountInBeforeFee * 1_000_000 /
\* (1_000_000 - tradeFeeRate) rounded up.
C5_InputIsTwoCeilings ==
    ExactOutputResult =>
        \A q \in outcome.result :
            LET before == outcome.locals.swapAmount
            IN  /\ q.amountOut < OutputReserveOf(call.direction)
                /\ IsCeil(before,
                          InputReserveOf(call.direction) * q.amountOut,
                          OutputReserveOf(call.direction) - q.amountOut)
                /\ IsCeil(q.amountIn, before * 1000000,
                          1000000 - poolData.tradeFeeRate)

\* A successful result in which both divisions were really rounded up.
C5_Witness ==
    /\ ExactOutputResult
    /\ \E q \in outcome.result :
        /\ (InputReserveOf(call.direction) * q.amountOut)
             % (OutputReserveOf(call.direction) - q.amountOut) # 0
        /\ (outcome.locals.swapAmount * 1000000)
             % (1000000 - poolData.tradeFeeRate) # 0

\* C6 as stated: in every successful result of calculateExactOutputQuote the
\* fee is amountIn * tradeFeeRate / 1_000_000 rounded down.
C6_OutputFeeIsFloor ==
    ExactOutputResult =>
        \A q \in outcome.result :
            FeeProductInRange(q.amountIn) =>
                IsFloor(q.fee, q.amountIn * poolData.tradeFeeRate, 1000000)

\* C6 amended: in every successful result of calculateExactOutputQuote the
\* fee is amountIn - amountInBeforeFee, which is amountIn * tradeFeeRate /
\* 1_000_000 rounded up.
C6_OutputFeeIsCeil ==
    ExactOutputResult =>
        \A q \in outcome.result :
            /\ q.fee = q.amountIn - outcome.locals.swapAmount
            /\ FeeProductInRange(q.amountIn) =>
                   IsCeil(q.fee, q.amountIn * poolData.tradeFeeRate, 1000000)

\* A successful result whose fee is one more than the rounded-down fee.
C6_Witness ==
    /\ ExactOutputResult
    /\ \E q \in outcome.result :
        /\ FeeProductInRange(q.amountIn)
        /\ q.fee = ((q.amountIn * poolData.tradeFeeRate) \div 1000000) + 1

\* C7 as stated: in every successful result of calculateExactOutputQuote,
\* maxAmountIn is amountIn plus amountIn * slippagePpm / 1_000_000 rounded
\* up, slippagePpm being the tolerance in parts per million, rounded down.
C7_MaxAmountInRoundsUp ==
    ExactOutputResult =>
        \A q \in outcome.result :
            /\ IsFloor(outcome.locals.slippageBN,
                       call.slippage[1] * 1000000, call.slippage[2])
            /\ IsCeil(q.maxAmountIn - q.amountIn,
                      q.amountIn * outcome.locals.slippageBN, 1000000)

\* C8: in every result of calculateExactInputQuote, minAmountOut is amountOut
\* minus amountOut * slippagePpm / 1_000_000 rounded down, slippagePpm being
\* the tolerance times 1_000_000 rounded down; for a tolerance in [0, 1],
\* 0 <= minAmountOut <= amountOut.
C8_MinAmountOut ==
    ExactInputResult =>
        \A q \in outcome.result :
            /\ IsFloor(outcome.locals.slippageBN,
                       call.slippage[1] * 1000000, call.slippage[2])
            /\ IsFloor(q.amountOut - q.minAmountOut,
                       q.amountOut * outcome.locals.slippageBN, 1000000)
            /\ call.slippage[1] <= call.slippage[2] =>
                   (0 <= q.minAmountOut /\ q.minAmountOut <= q.amountOut)

\* A result under a tolerance of one third (333333 parts per million after
\* rounding down) whose minimum is below the quoted output.
C8_Witness ==
    /\ ExactInputResult
    /\ call.slippage = <<1, 3>>
    /\ outcome.locals.slippageBN = 333333
    /\ \E q \in outcome.result :
        /\ q.minAmountOut < q.amountOut
        /\ (q.amountOut * 333333) % 1000000 # 0

-----------------------------------------------------------------------------
(* Properties of the account fetchers and byte decoders *)

FetchDone == fetch.pc = "done"

\* C9 as stated: decoding a buffer shorter than the largest offset + width of
\* its layout fails with BufferTooShort and returns no record.
C9_ShortBufferFails ==
    FetchDone =>
        \A data \in fetched.decoded :
            Len(data) < LayoutLength(fetch.fn) =>
                fetched.status = "BufferTooShort" /\ fetched.result = {}

\* The program identifier a fetch function requires of the account's owner.
ExpectedOwner ==
    IF fetch.fn = "fetchPumpFunBondingCurveAccount"
    THEN PUMPFUN_PROGRAM
    ELSE LAUNCHPAD_PROGRAM

\* C10: fetchPumpFunBondingCurveAccount and fetchLaunchpadPoolAccount fail
\* with AccountNotFound when the data source returns no account, and with
\* OwnershipMismatch when the account's owner is not the expected program;
\* in both cases nothing is decoded and no record is returned.  The bytes
\* reach the decoder only when the account exists and its owner matches.
C10_ChecksBeforeDecode ==
    (/\ FetchDone
     /\ fetch.fn \in {"fetchPumpFunBondingCurveAccount",
                      "fetchLaunchpadPoolAccount"}) =>
        /\ accountInfo = {} =>
               /\ fetched.status = "AccountNotFound"
               /\ fetched.result = {}
               /\ fetched.decoded = {}
        /\ \A account \in accountInfo :
               IF account.owner # ExpectedOwner
               THEN /\ fetched.status = "OwnershipMismatch"
                    /\ fetched.result = {}
                    /\ fetched.decoded = {}
               ELSE /\ fetched.status = "ok"
                    /\ fetched.decoded = {account.data}

\* A complete bonding-curve account owned by another program was refused
\* and not decoded.
C10_Witness ==
    /\ FetchDone
    /\ fetch.fn = "fetchPumpFunBondingCurveAccount"
    /\ fetched.status = "OwnershipMismatch"
    /\ fetched.decoded = {}
    /\ \E account \in accountInfo :
        /\ account.owner = LAUNCHPAD_PROGRAM
        /\ Len(account.data) = 57

\* C11 as stated: fetchLaunchpadCurveType never decodes a curve type from an
\* account whose owner is not the launchpad program; such an account yields
\* OwnershipMismatch, no curve type, and its bytes never reach the decoder.
C11_ConfigOwnerGated ==
    (FetchDone /\ fetch.fn = "fetchLaunchpadCurveType") =>
        \A account \in accountInfo :
            account.owner # LAUNCHPAD_PROGRAM =>
                /\ fetched.status = "OwnershipMismatch"
                /\ fetched.result = {}
                /\ fetched.decoded = {}

\* The byte at CONFIG_OFFSETS.curveType of a buffer: the set of it, empty
\* when the buffer ends before it.
CurveTypeByteOf(data) ==
    IF Len(data) > 16 THEN {data[17]} ELSE {}

\* The fetch has ended after the config account was read: by
\* fetchLaunchpadCurveType itself, or by fetchBondingCurveInfo past its pool.
ConfigFetched ==
    /\ FetchDone
    /\ \/ fetch.fn = "fetchLaunchpadCurveType"
       \/ fetch.fn = "fetchBondingCurveInfo" /\ launchpadPool # {}

\* C12: decoding the curve type of a config account returns ConstantProduct,
\* FixedPrice or LinearPrice exactly when the byte at offset 16 is 0, 1 or
\* 2 respectively; for every other byte value (and when there is no such
\* byte) it fails with the unknown-variant error and returns nothing, so
\* fetchBondingCurveInfo fails with it too, and every BondingCurveInfo
\* carries the variant of the config account's byte, one of 0, 1, 2.
C12_CurveTypeExactly ==
    ConfigFetched =>
        \A account \in accountInfo :
            LET byte == CurveTypeByteOf(account.data)
            IN  /\ byte = {0} <=> fetched.result = {CurveType.ConstantProduct}
                /\ byte = {1} <=> fetched.result = {CurveType.FixedPrice}
                /\ byte = {2} <=> fetched.result = {CurveType.LinearPrice}
                /\ byte \cap {0, 1, 2} = {} <=>
                       /\ fetched.status = "UnknownCurveVariant"
                       /\ fetched.result = {}
                /\ fetched.status \in {"ok", "UnknownCurveVariant"}
                /\ fetched.status = "ok" <=> fetched.result # {}
                /\ fetched.status = "UnknownCurveVariant" =>
                       /\ curveInfo.result = {}
                       /\ fetch.fn = "fetchBondingCurveInfo" =>
                              curveInfo.status = "UnknownCurveVariant"
                /\ \A r \in curveInfo.result :
                       /\ r.curveType \in {0, 1, 2}
                       /\ byte = {r.curveType}

\* A config account whose curve-type byte is 3, the first value after the
\* known variants, was refused.
C12_Witness ==
    /\ FetchDone
    /\ fetch.fn = "fetchLaunchpadCurveType"
    /\ fetched.status = "UnknownCurveVariant"
    /\ fetched.result = {}
    /\ \E account \in accountInfo : CurveTypeByteOf(account.data) = {3}

\* The five u64 fields of a bonding-curve record.
U64Fields ==
    {"virtualTokenReserves", "virtualSolReserves", "realTokenReserves",
     "realSolReserves", "tokenTotalSupply"}

\* C13: decoding a PumpFun bonding-curve buffer inverts the wire encoding.
\* When the decoded buffer is the encoding of five values below 2^64 at
\* offsets 8, 16, 24, 32, 40 with a flag byte at offset 48, the decoded
\* record holds exactly those five values and complete is true exactly when
\* the flag byte is not zero; and the eight little-endian bytes of each
\* decoded value are the bytes the buffer holds at the field's offset.
C13_DecodeInvertsEncode ==
    (/\ FetchDone
     /\ fetch.fn = "fetchPumpFunBondingCurveAccount"
     /\ fetched.status = "ok") =>
        \A data \in fetched.decoded : \A curve \in fetched.result :
            /\ \A w \in BondingCurveWires :
                   w.data = data =>
                       /\ \A f \in U64Fields : curve[f] = w.params[f]
                       /\ curve.complete = (w.flag # 0)
            /\ Len(data) >= BONDING_CURVE_OFFSETS.complete + 1 =>
                   /\ \A f \in U64Fields :
                          toBuffer_le(curve[f], 8)
                              = SubSeq(data, BONDING_CURVE_OFFSETS[f] + 1,
                                       BONDING_CURVE_OFFSETS[f] + 8)
                   /\ curve.complete
                          = (data[BONDING_CURVE_OFFSETS.complete + 1] # 0)

\* An account holding 2^64 - 1 and 2^53 + 1 with flag byte 255 was decoded
\* to exactly these values, complete.
C13_Witness ==
    /\ FetchDone
    /\ fetch.fn = "fetchPumpFunBondingCurveAccount"
    /\ fetched.status = "ok"
    /\ \E data \in fetched.decoded : \E curve \in fetched.result :
        /\ Len(data) = 57
        /\ SubSeq(data, 9, 16) = [i \in 1..8 |-> 255]
        /\ data[49] = 255
        /\ curve.virtualTokenReserves = bnSub(TwoTo64, BN(1)).mag
        /\ curve.virtualSolReserves = bnAdd(bnMul(TwoTo32, BN(2097152)), BN(1))
        /\ curve.complete

-----------------------------------------------------------------------------
(* Properties of the curve economics *)

\* fetchPumpFunBondingCurveInfo has ended past a decoded bonding curve.
PumpFunInfoComputed ==
    /\ FetchDone
    /\ fetch.fn = "fetchPumpFunBondingCurveInfo"
    /\ fetched.status = "ok"

\* fetchBondingCurveInfo has ended past a decoded pool and a decoded curve
\* type, the pool read from a buffer that holds both decimals.
LaunchpadInfoComputed ==
    /\ FetchDone
    /\ fetch.fn = "fetchBondingCurveInfo"
    /\ fetched.status = "ok"
    /\ \E p \in launchpadPool :
        p.mintDecimalsA # Undefined /\ p.mintDecimalsB # Undefined

\* The Decimal x is the fraction num / den, negative when neg, times
\* 10^(a - b); stated without a division.
IsFraction(x, neg, num, den, a, b) ==
    /\ x.err = "none"
    /\ x.neg = (neg /\ num # <<>>)
    /\ IF a >= b
       THEN bnMul(x.num, den) = bnMul(bnMul(num, Pow10BN(a - b)), x.den)
       ELSE bnMul(bnMul(x.num, den), Pow10BN(b - a)) = bnMul(num, x.den)

\* x < y and x = y of two Decimals, by cross-multiplication.
DecLess(x, y) ==
    LET p == bnMul(x.num, y.den)
        q == bnMul(y.num, x.den)
    IN  IF x.neg # y.neg THEN x.neg
        ELSE IF x.neg THEN bnCmp(p, q) > 0 ELSE bnCmp(p, q) < 0

DecEq(x, y) ==
    x.neg = y.neg /\ bnMul(x.num, y.den) = bnMul(y.num, x.den)

\* C14: bondingPercentage is realQuoteReserve / target * 100 when the target
\* is positive, and 100, computed without a division, when the target is
\* zero: for fetchPumpFunBondingCurveInfo with the target 85,000,000,000 and
\* for fetchBondingCurveInfo with the target totalFundRaisingB.  It is the
\* first Decimal either function computes, and the one the Info carries.
C14_BondingPercentage ==
    /\ PumpFunInfoComputed =>
           \A curve \in fetched.result :
               /\ Len(curveInfo.computed) >= 1
               /\ IsFraction(curveInfo.computed[1], FALSE,
                             bnMul(curve.realSolReserves, BN(100)),
                             bnMul(BN(85), BN(1000000000)), 0, 0)
               /\ \A r \in curveInfo.result :
                      r.bondingPercentage = curveInfo.computed[1]
    /\ LaunchpadInfoComputed =>
           \A p \in launchpadPool :
               /\ Len(curveInfo.computed) >= 1
               /\ IF p.totalFundRaisingB = <<>>
                  THEN IsFraction(curveInfo.computed[1], FALSE,
                                  BN(100), BN(1), 0, 0)
                  ELSE IsFraction(curveInfo.computed[1], FALSE,
                                  bnMul(p.realB, BN(100)),
                                  p.totalFundRaisingB, 0, 0)
               /\ \A r \in curveInfo.result :
                      r.bondingPercentage = curveInfo.computed[1]

\* A launchpad pool with no fundraising target and a non-zero real quote
\* reserve got an Info whose bondingPercentage is 100.
C14_Witness ==
    /\ LaunchpadInfoComputed
    /\ \E p \in launchpadPool :
        /\ p.totalFundRaisingB = <<>>
        /\ p.realB # <<>>
    /\ \E r \in curveInfo.result :
        DecEq(r.bondingPercentage, DecimalOf(100))

\* C15 as stated: with virtualBase - realBase = 0 the current price is
\* computed without an error and is 0, in fetchPumpFunBondingCurveInfo and,
\* for every curve variant, in fetchBondingCurveInfo.  The current price is
\* the second Decimal either function computes.
C15_ZeroDenominatorPriceIsZero ==
    /\ PumpFunInfoComputed =>
           \A curve \in fetched.result :
               curve.virtualTokenReserves = curve.realTokenReserves =>
                   /\ Len(curveInfo.computed) >= 2
                   /\ curveInfo.computed[2].err = "none"
                   /\ isZero(curveInfo.computed[2])
    /\ LaunchpadInfoComputed =>
           \A p \in launchpadPool :
               p.virtualA = p.realA =>
                   /\ Len(curveInfo.computed) >= 2
                   /\ curveInfo.computed[2].err = "none"
                   /\ isZero(curveInfo.computed[2])

\* The prices of a PumpFun Info against its bonding curve: the current
\* price is (virtualSol + realSol) / (virtualToken - realToken) and the
\* graduation price is (virtualSol + target)^2 / k, both times 10^(6 - 9);
\* the graduation price is the greater while realSol is below the target,
\* and the two are equal exactly when realSol is the target.
GraduationAboveCurrent(curve, r) ==
    LET effectiveSol == bnAdd(curve.virtualSolReserves, curve.realSolReserves)
        effectiveToken ==
            bnSub(curve.virtualTokenReserves, curve.realTokenReserves).mag
        graduationSol ==
            bnAdd(curve.virtualSolReserves, bnMul(BN(85), BN(1000000000)))
        k == bnMul(effectiveSol, effectiveToken)
        belowTarget ==
            bnCmp(curve.realSolReserves, bnMul(BN(85), BN(1000000000))) < 0
        atTarget ==
            curve.realSolReserves = bnMul(BN(85), BN(1000000000))
    IN  /\ IsFraction(r.currentPrice, FALSE, effectiveSol, effectiveToken, 6, 9)
        /\ IsFraction(r.graduationPrice, FALSE,
                      bnMul(graduationSol, graduationSol), k, 6, 9)
        /\ belowTarget => DecLess(r.currentPrice, r.graduationPrice)
        /\ atTarget <=> DecEq(r.currentPrice, r.graduationPrice)

C17_GraduationPrice ==
    LaunchpadInfoComputed =>
        \A p \in launchpadPool : \A r \in curveInfo.result :
            LET endA == bnSub(p.virtualA, p.totalSellA)
            IN  /\ (r.curveType = CurveType.FixedPrice /\ p.virtualA # <<>>) =>
                       IsFraction(r.graduationPrice, FALSE, p.virtualB,
                                  p.virtualA, p.mintDecimalsA, p.mintDecimalsB)
                /\ (r.curveType # CurveType.FixedPrice /\ endA.mag # <<>>) =>
                       IsFraction(r.graduationPrice, endA.neg,
                                  bnAdd(p.virtualB, p.totalFundRaisingB),
                                  endA.mag, p.mintDecimalsA, p.mintDecimalsB)

\* A FixedPrice pool that has sold tokens, raised funds and has a target
\* got the graduation price 30 * 10^9 / 10^15 * 10^(6 - 9) = 3 / 10^8.
C17_Witness ==
    /\ LaunchpadInfoComputed
    /\ \E p \in launchpadPool : \E r \in curveInfo.result :
        /\ r.curveType = CurveType.FixedPrice
        /\ p.realA # <<>> /\ p.realB # <<>> /\ p.totalFundRaisingB # <<>>
        /\ p.mintDecimalsA = 6 /\ p.mintDecimalsB = 9
        /\ DecEq(r.graduationPrice, Dec(FALSE, BN(3), BN(100000000)))

-----------------------------------------------------------------------------
(* Properties of batch quoting *)

\* What the single quote operation the batch selected returns for the i-th
\* amount alone, on the snapshot the batch was handed.
SingleQuote(snapshot, i) ==
    IF batch.isExactInput
    THEN calculateExactInputQuote(
             [poolData |-> snapshot, amountIn |-> batch.amounts[i],
              slippage |-> batch.slippage, direction |-> batch.direction])
    ELSE calculateExactOutputQuote(
             [poolData |-> snapshot, amountOut |-> batch.amounts[i],
              slippage |-> batch.slippage, direction |-> batch.direction])

\* C18: a calculateMultipleQuotes call that returns gives one result per
\* amount, in the order of the amounts, the i-th being what the single quote
\* operation returns for the i-th amount alone on the same snapshot; it
\* returns whenever every single quote does, and otherwise throws what the
\* first failing single quote throws; the pool's reserves and fee rate are
\* after the call what they were before it.
C18_BatchIsPointwise ==
    batch.op = "calculateMultipleQuotes" =>
        \A snapshot \in batch.poolData :
            LET n == Len(batch.amounts)
                failing == {i \in 1..n : SingleQuote(snapshot, i).status # "ok"}
            IN  /\ poolData = snapshot
                /\ quotes.status = "ok" <=> failing = {}
                /\ quotes.status = "ok" =>
                       /\ Len(quotes.results) = n
                       /\ \A i \in 1..n :
                              SingleQuote(snapshot, i).result
                                  = {quotes.results[i]}
                /\ quotes.status # "ok" =>
                       \E i \in failing :
                           /\ \A j \in failing : i <= j
                           /\ quotes.status = SingleQuote(snapshot, i).status

\* An exact-input batch of two different amounts returned two results with
\* different outputs, the second amount's output not zero.
C18_Witness ==
    /\ batch.op = "calculateMultipleQuotes"
    /\ batch.isExactInput
    /\ quotes.status = "ok"
    /\ Len(batch.amounts) = 2
    /\ batch.amounts[1] # batch.amounts[2]
    /\ quotes.results[1].amountIn > 0
    /\ quotes.results[2].amountOut > 0
    /\ quotes.results[1].amountOut # quotes.results[2].amountOut

-----------------------------------------------------------------------------
(* Properties of the pool cache *)

Awaiting == {"awaitLoad", "awaitInstance", "awaitRpc"}

\* The entry of pool id is fresh: there is one and the time is strictly
\* before its expiresAt.
Fresh(id) == \E e \in poolCache[id] : clock < e.expiresAt

\* A step in which getPoolDataFromCache returns: it returns the entry's data
\* when the entry is fresh, and undefined when it is expired or absent.
ReadStep ==
    cacheCall'.op = "getPoolDataFromCache" =>
        /\ \A e \in poolCache[cacheCall'.poolId] :
               /\ clock < e.expiresAt => cacheCall'.data = {e.data}
               /\ clock >= e.expiresAt => cacheCall'.data = {}
        /\ poolCache[cacheCall'.poolId] = {} => cacheCall'.data = {}
        /\ poolCache' = poolCache

\* A step in which fetchPoolData is called: it returns the cached data, and
\* no caller starts a fetch, exactly when forceRefresh is off and the entry
\* is fresh; otherwise the caller goes on to the remote fetch, holding the
\* time of the call and the time-to-live, 10,000 when none is given.
CallStep ==
    (cacheCall'.op = "fetchPoolData"
        /\ cacheCall'.status \in {"cached", "pending"}) =>
        LET id == cacheCall'.poolId
            hit == ~cacheCall'.forceRefresh /\ Fresh(id)
        IN  /\ poolCache' = poolCache
            /\ cacheCall'.status = "cached" <=> hit
            /\ hit => /\ callers' = callers
                      /\ \E e \in poolCache[id] : cacheCall'.data = {e.data}
            /\ ~hit =>
                   \E c \in Callers :
                       /\ callers[c].pc = "idle"
                       /\ callers'[c].pc \in Awaiting
                       /\ callers'[c].poolIdStr = id
                       /\ callers'[c].now = clock
                       /\ callers'[c].cacheTTL =
                              IF cacheCall'.ttl = Undefined THEN 10000
                              ELSE cacheCall'.ttl
                       /\ \A d \in Callers \ {c} : callers'[d] = callers[d]

\* A step in which caller c's remote fetch resolves: the entry of its pool
\* id becomes the fetched data, expiring the time-to-live after the time of
\* the call, whatever the entry was; the other entries and the other
\* callers are left as they were.
StoreStep(c) ==
    (callers[c].pc = "awaitRpc" /\ cacheCall'.status = "fetched"
        /\ callers'[c].pc = "idle") =>
        LET id == callers[c].poolIdStr
        IN  /\ \E data \in cacheCall'.data :
                /\ data.id = id
                /\ data.fetchedAt = callers[c].now
                /\ poolCache'[id] =
                       {[data |-> data,
                         expiresAt |-> callers[c].now + callers[c].cacheTTL]}
            /\ \A other \in PoolIds \ {id} : poolCache'[other] = poolCache[other]
            /\ \A d \in Callers \ {c} : callers'[d] = callers[d]

\* C19: a read of an expired entry is a miss.  getPoolDataFromCache returns
\* an entry's data only while the time is strictly before its expiresAt;
\* fetchPoolData without forceRefresh skips the remote fetch in that same
\* case only, and otherwise fetches and rewrites the entry, with the
\* time-to-live 10,000 by default.
C19_ExpiredIsMiss ==
    [][ReadStep /\ CallStep /\ \A c \in Callers : StoreStep(c)]_vars

\* getPoolDataFromCache has just returned undefined for an entry that is
\* there and expires at this very millisecond.
C19_Witness ==
    /\ cacheCall.op = "getPoolDataFromCache"
    /\ cacheCall.data = {}
    /\ \E e \in poolCache[cacheCall.poolId] :
        /\ e.expiresAt = clock
        /\ e.expiresAt = e.data.fetchedAt + 10000

\* A step in which setPoolDataCache returns: the entry of the data's pool id
\* is the data, expiring the time-to-live after now.
SetStep ==
    cacheCall'.op = "setPoolDataCache" =>
        /\ \E data \in cacheCall'.data :
            /\ data.id = cacheCall'.poolId
            /\ poolCache'[data.id] =
                   {[data |-> data,
                     expiresAt |-> clock + (IF cacheCall'.ttl = Undefined
                                            THEN 10000 ELSE cacheCall'.ttl)]}
        /\ \A other \in PoolIds \ {cacheCall'.poolId} :
               poolCache'[other] = poolCache[other]
        /\ callers' = callers

\* A step in which a call misses: the caller begins its own fetch, whoever
\* else is fetching the same pool.
MissStep ==
    (cacheCall'.op = "fetchPoolData" /\ cacheCall'.status = "pending") =>
        \E c \in Callers :
            /\ callers[c].pc = "idle"
            /\ callers'[c].pc \in {"awaitLoad", "awaitInstance"}
            /\ callers'[c].poolIdStr = cacheCall'.poolId

\* Only a write changes the cache: a resolved fetch, setPoolDataCache or
\* clearPoolCache.
OnlyWritesChange ==
    poolCache' # poolCache =>
        \/ cacheCall'.op \in {"setPoolDataCache", "clearPoolCache"}
        \/ cacheCall'.op = "fetchPoolData" /\ cacheCall'.status = "fetched"

\* C20: the cache is last-write-wins per key.  Every call that misses begins
\* its own fetch; a cache read can be made in every state, whoever is
\* fetching; each write, of a resolved fetch or of setPoolDataCache, leaves
\* exactly its own entry under its pool id, whatever was there, and leaves
\* the other pool ids' entries alone; and nothing but a write changes an
\* entry, so that the entry present is that of the last write.
C20_LastWriteWins ==
    /\ [][/\ MissStep
          /\ SetStep
          /\ OnlyWritesChange
          /\ \A c \in Callers : StoreStep(c)]_vars
    /\ [](ENABLED GetPoolDataFromCache)

\* Two fetches of one pool overlapped, and the one that began first
\* resolved last: its entry, the older data, replaced the entry of the
\* other, while the other pool's entry stayed.
C20_Witness ==
    /\ cacheCall.op = "fetchPoolData"
    /\ cacheCall.status = "fetched"
    /\ poolCache["poolB"] # {}
    /\ \E e \in poolCache[cacheCall.poolId], old \in cacheCall.previous :
        /\ cacheCall.data = {e.data}
        /\ old.data.baseReserve \in RpcReserves
        /\ old.data.fetchedAt > e.data.fetchedAt
        /\ old.expiresAt > e.expiresAt

-----------------------------------------------------------------------------
(* Properties of the order of the fetches *)

\* The fields of a BondingCurveInfo, and those that are Decimals.
InfoFields ==
    {"curveType", "curveTypeLabel", "bondingPercentage", "currentPrice",
     "graduationPrice", "graduationMcap", "totalFundRaisingB", "raisedSoFar",
     "remainingToRaise", "poolStatus", "migrateType"}

InfoDecimals(r) ==
    {r.bondingPercentage, r.currentPrice, r.graduationPrice, r.graduationMcap,
     r.totalFundRaisingB, r.raisedSoFar, r.remainingToRaise}

\* The pool step of fetchBondingCurveInfo failed: it has ended with one
\* account asked for, the pool's.
PoolStepFailed ==
    /\ fetch.fn = "fetchBondingCurveInfo"
    /\ FetchDone
    /\ Len(requested) = 1

\* C21: fetchBondingCurveInfo asks for the pool account first and then, only
\* once that account is there, is owned by the launchpad program and has
\* been decoded, for the config account at the configId decoded from it; a
\* pool step that fails ends the function with the config account never
\* asked for; and a BondingCurveInfo exists only when both steps succeeded,
\* the curve type being one of the three, and then it is whole.
C21_PoolThenConfig ==
    fetch.fn = "fetchBondingCurveInfo" =>
        /\ requested # <<>> /\ requested[1] = AccountAddress
        /\ Len(requested) <= 2
        /\ fetch.pc = "awaiting" =>
               Len(requested) = 1 /\ launchpadPool = {} /\ curveInfo = NoInfo
        /\ fetch.pc = "awaitingConfig" =>
               /\ Len(requested) = 2
               /\ curveInfo = NoInfo
               /\ \E a \in accountInfo :
                   /\ a.owner = LAUNCHPAD_PROGRAM
                   /\ Len(a.data) >= POOL_OFFSETS.configId + 32 =>
                          requested[2] =
                              SubSeq(a.data, POOL_OFFSETS.configId + 1,
                                     POOL_OFFSETS.configId + 32)
        /\ Len(requested) = 2 =>
               /\ launchpadPool # {}
               /\ \A p \in launchpadPool : requested[2] = p.configId
        /\ PoolStepFailed =>
               /\ launchpadPool = {}
               /\ curveInfo.result = {}
               /\ \/ accountInfo = {} /\ curveInfo.status = "AccountNotFound"
                  \/ /\ \E a \in accountInfo : a.owner # LAUNCHPAD_PROGRAM
                     /\ curveInfo.status = "OwnershipMismatch"
        /\ (FetchDone /\ Len(requested) = 2) =>
               \/ accountInfo = {} /\ curveInfo.result = {}
               \/ \E a \in accountInfo :
                      CurveTypeByteOf(a.data) \cap {0, 1, 2} = {}
                          => curveInfo.result = {}
        /\ \A r \in curveInfo.result :
               /\ FetchDone /\ Len(requested) = 2
               /\ curveInfo.status = "ok" /\ fetched.status = "ok"
               /\ DOMAIN r = InfoFields
               /\ r.curveType \in {0, 1, 2}
               /\ \A x \in InfoDecimals(r) : x.err = "none"

\* The pool account was there but owned by another program: the function
\* ended without a result and without asking for the config account.
C21_Witness ==
    /\ PoolStepFailed
    /\ \E a \in accountInfo :
        /\ a.owner # LAUNCHPAD_PROGRAM
        /\ Len(a.data) = POOL_OFFSETS.creator + 32
    /\ curveInfo.result = {}

-----------------------------------------------------------------------------
(* Properties of the size of an exact-input quote *)

\* The exact-input quote of the called pool, direction and slippage for another
\* amount.
QuoteFor(amountIn) ==
    calculateExactInputQuote([poolData |-> poolData, amountIn |-> amountIn,
                              slippage |-> call.slippage,
                              direction |-> call.direction])

\* What the pool pays for a raw input amount: the swap output of the amount
\* less its fee.
OutputFor(raw) ==
    calculateSwapOutput(raw - calculateFee(raw, poolData.tradeFeeRate),
                        InputReserveOf(call.direction),
                        OutputReserveOf(call.direction))

\* C22: an exact-input quote never drains the pool.  On a pool whose input
\* reserve is positive (every trade fee rate of the model lies in
\* [0, 999999]), in either direction and for every raw input amount (a token
\* quantity, zero or more), every result of calculateExactInputQuote has
\* 0 <= amountOut, and amountOut < outputReserve when the output reserve is
\* positive; amountOut is non-decreasing in the raw input amount: no smaller
\* raw amount is paid more by the pool, and no quote returned for a smaller
\* amount has a larger amountOut.
C22_NeverDrains ==
    (ExactInputResult /\ InputReserveOf(call.direction) > 0) =>
        \A q \in outcome.result :
            /\ poolData.tradeFeeRate \in 0..999999
            /\ 0 <= q.amountOut
            /\ OutputReserveOf(call.direction) > 0 =>
                   q.amountOut < OutputReserveOf(call.direction)
            /\ \A raw \in 0..q.amountIn : OutputFor(raw) <= q.amountOut
            /\ \A a \in Amounts :
                   toRawAmount(a, InputDecimalsOf(call.direction)) <= q.amountIn =>
                       \A o \in QuoteFor(a).result : o.amountOut <= q.amountOut

\* A quote that takes all of the output reserve but one unit, on a pool that
\* charges a fee, and that also returns a smaller positive quote for a smaller
\* amount.
C22_Witness ==
    /\ ExactInputResult
    /\ InputReserveOf(call.direction) > 0
    /\ OutputReserveOf(call.direction) > 1
    /\ poolData.tradeFeeRate > 0
    /\ \E q \in outcome.result :
        /\ q.fee > 0
        /\ q.amountOut = OutputReserveOf(call.direction) - 1
        /\ \E a \in Amounts :
            /\ toRawAmount(a, InputDecimalsOf(call.direction)) < q.amountIn
            /\ QuoteFor(a).status = "ok"
            /\ \E o \in QuoteFor(a).result :
                   0 < o.amountOut /\ o.amountOut < q.amountOut

=============================================================================
